---- MODULE Spec2Model ----
(***************************************************************************)
(* bunlox: scanTokens -> parseAst -> resolve -> interpret.                 *)
(*                                                                         *)
(* scanTokens is a generator over a source text, pulled one token at a     *)
(* time; parseAst turns a token array into a statement list, one           *)
(* declaration per step of its top-level loop.                             *)
(* A program is a list of statement nodes (core/statements.ts,             *)
(* core/expressions.ts).  resolve walks it once and yields the locals map  *)
(* (node identity -> binding distance) or rejects it; interpret walks it   *)
(* against a chain of environment frames.  The visitors are recursive      *)
(* functions in the source and recursive operators here; a thrown          *)
(* JavaScript exception is the `sig` field of the result an operator       *)
(* returns, and a try/catch is a test of that field.                       *)
(***************************************************************************)
EXTENDS Integers, Sequences, FiniteSets, TLC

VARIABLES
    program,        \* the statement list handed to resolve and interpret
    repl,           \* interpret's option `repl`
    pc,             \* "scan", "scan-eof", "scanned", "scan-thrown", "abandoned",
                    \* "parse", "parse-thrown", "resolve", "rejected",
                    \* "interpret", "done"; "environment" in EnvSpec
    locals,         \* Map<Expr, number> returned by resolve
    resolveErrors,  \* resolver.errors, the list resolve() tests and raises
    index,          \* position of interpret's for loop in `program`
    envs,           \* every Environment created so far; envs[1] is the global one
    out,            \* what console.log has written, in order
    nfun,           \* number of function objects created (their identity)
    thrown,         \* the exception that left interpret, if any
    calls,          \* function bodies entered so far, with the arguments bound
    input,          \* how `program` was drawn (read by the properties only)
    scanner,        \* the locals of the suspended generator scanTokens
    tokens,         \* the tokens the generator has yielded; parseAst's array
    parser,         \* parseTokensStream: stream index, errors, statements
    op              \* the call last made on the environment from outside a
                    \* run: createEnvironment, define, get, assign (EnvSpec),
                    \* or a further interpret call

vars == <<program, repl, pc, locals, resolveErrors, index, envs, out, nfun,
          thrown, calls, input, scanner, tokens, parser, op>>

frontEnd == <<scanner, tokens, parser>>
backEnd == <<locals, resolveErrors, index, envs, out, nfun, calls>>

-----------------------------------------------------------------------------
(* Bounds of the model.                                                    *)

\* Depth of the statement nesting drawn around a break or return statement.
MaxNest == 3
\* Loop iterations plus calls one top-level statement may make before the
\* model stops following it.
MaxSteps == 24
\* Largest number a counted loop of the drawn programs counts to.
MaxCount == 2
\* Largest number of parameters of a drawn function.
MaxParams == 2
\* Deepest block nesting of the drawn shadowing programs.
MaxLevels == 2
MaxBody == 2
MaxSegments == 2
MaxOps == 2
MaxPieces == 2

-----------------------------------------------------------------------------
(* Values (core/literal.ts: string | number | boolean | null | LoxCallable)*)

null == 0
undefined == 0 - 1

Nil == [k |-> "nil"]
Undef == [k |-> "undefined"]
BoolV(b) == [k |-> "bool", v |-> b]
NumV(n) == [k |-> "num", v |-> n]
StrV(s) == [k |-> "str", v |-> s]

isCallable(value) == value.k \in {"fun", "native"}

arity(callee) ==
    IF callee.k = "native" THEN callee.arity
    ELSE Len(callee.declaration.parameters)

-----------------------------------------------------------------------------
(* AST nodes.  A Variable or Assignment node carries `id`, its object      *)
(* identity: the locals map is keyed by it.                                *)

literal(value) == [type |-> "literal", value |-> value]
grouping(expression) == [type |-> "grouping", expression |-> expression]
unary(operator, right) == [type |-> "unary", operator |-> operator, right |-> right]
binary(left, operator, right) ==
    [type |-> "binary", left |-> left, operator |-> operator, right |-> right]
logical(left, operator, right) ==
    [type |-> "logical", left |-> left, operator |-> operator, right |-> right]
variable(id, name) == [type |-> "variable", name |-> name, id |-> id]
assignment(id, name, value) ==
    [type |-> "assignment", name |-> name, value |-> value, id |-> id]
call(callee, args) == [type |-> "call", callee |-> callee, args |-> args]
functionExpr(parameters, body) ==
    [type |-> "anonymousFunction", parameters |-> parameters, body |-> body]

NoNode == [type |-> "null"]

expr(expression) == [type |-> "exprStmt", expression |-> expression]
print(expression) == [type |-> "printStmt", expression |-> expression]
returnStmt(value) == [type |-> "returnStmt", value |-> value]
varDecl(name, initializer) ==
    [type |-> "varDecl", name |-> name, initializer |-> initializer]
block(statements) == [type |-> "block", statements |-> statements]
ifStmt(condition, thenBranch, elseBranch) ==
    [type |-> "ifStmt", condition |-> condition, thenBranch |-> thenBranch,
     elseBranch |-> elseBranch]
whileStmt(condition, body) ==
    [type |-> "whileStmt", condition |-> condition, body |-> body]
breakStmt == [type |-> "breakStmt"]
functionStmt(name, parameters, body) ==
    [type |-> "function", name |-> name, parameters |-> parameters, body |-> body]

-----------------------------------------------------------------------------
(* Results.  `sig` is "none" for a normal return, else the class of the    *)
(* exception in flight; `st` is the interpreter's mutable state after the  *)
(* evaluation: [envs, out, nfun, steps, calls].                            *)

Ok(st, v) == [sig |-> "none", msg |-> "", v |-> v, st |-> st]
Throw(st, sig, msg) == [sig |-> sig, msg |-> msg, v |-> Undef, st |-> st]

runtimeError(st, msg) == Throw(st, "RuntimeError", msg)
breakError(st, msg) == Throw(st, "BreakError", msg)
returnError(st, value) == [sig |-> "ReturnError", msg |-> "", v |-> value, st |-> st]

\* `error instanceof BreakError` and `error instanceof ReturnError`.
IsBreakError(r) == r.sig = "BreakError"
\* `error instanceof RuntimeError`: class BreakError extends RuntimeError.
IsRuntimeError(r) == r.sig \in {"RuntimeError", "BreakError"}
IsLoxError(r) ==
    r.sig \in {"LoxError", "SyntaxError", "ParseError", "RuntimeError",
               "BreakError", "ReturnError"}

\* the exit code runFile's catch chooses for what run() threw (0: none)
runFile(error) ==
    IF error.sig = "none" THEN 0
    ELSE IF IsLoxError(error) /\ IsRuntimeError(error) THEN 70
    ELSE 65
IsReturnError(r) == r.sig = "ReturnError"

-----------------------------------------------------------------------------
(* Environment chain (core/environment.ts).  A frame is                    *)
(* [values, enclosing, global]; enclosing and global are indices into envs *)
(* or null.                                                                *)

\* Sequencing: the code after a statement runs on the state s the statement
\* left (s is evaluated once).
Then(s, K(_)) == CHOOSE y \in {K(x) : x \in {s}} : TRUE

Has(values, name) == name \in DOMAIN values
MapSet(values, name, value) ==
    [n \in DOMAIN values \cup {name} |-> IF n = name THEN value ELSE values[n]]

EmptyMap == [n \in {} |-> Nil]

defineGlobals(values) ==
    MapSet(values, "clock", [k |-> "native", arity |-> 0, name |-> "clock"])

\* createEnvironment(enclosing): the new frame; its index is Len(envs) + 1.
NewFrame(enclosing, es) ==
    [values |-> IF enclosing = null THEN defineGlobals(EmptyMap) ELSE EmptyMap,
     enclosing |-> enclosing,
     global |-> IF enclosing = null THEN null
                ELSE IF es[enclosing].global # null THEN es[enclosing].global
                ELSE enclosing]

createEnvironment(enclosing, st) ==
    [st EXCEPT !.envs = Append(@, NewFrame(enclosing, st.envs))]

RECURSIVE Hop(_, _, _)
\* the loop `for (i = 1; i < distance; i++) environment = environment?.enclosing ?? null`
Hop(environment, n, es) ==
    IF n <= 0 THEN environment
    ELSE Hop(IF environment = null THEN null ELSE es[environment].enclosing, n - 1, es)

\* ancestor(distance) of frame self: [thrown, env]; thrown is the plain Error
\* "Can't find environment at distance".
\* an ancestor whose loop starts at the frame itself
ancestor_fromSelf(self, distance, es) ==
    IF distance = undefined THEN [thrown |-> FALSE, env |-> es[self].global]
    ELSE LET environment == Hop(self, distance - 1, es)
         IN  [thrown |-> environment = null, env |-> environment]

ancestor(self, distance, es) ==
    IF distance = undefined THEN [thrown |-> FALSE, env |-> es[self].global]
    ELSE LET environment == Hop(es[self].enclosing, distance - 1, es)
         IN  [thrown |-> environment = null, env |-> environment]

\* targetValues = (distance !== 0 && ancestor(distance)?.values) || values
targetValues(self, distance, es) ==
    IF distance = 0 THEN [thrown |-> FALSE, env |-> self]
    ELSE LET a == ancestor(self, distance, es)
         IN  IF a.thrown THEN a
             ELSE IF a.env = null THEN [thrown |-> FALSE, env |-> self]
             ELSE a

\* a define that overwrites on every frame
define_overwriting(self, name, value, st) ==
    Ok([st EXCEPT !.envs[self].values = MapSet(@, name, value)], Undef)

define(self, name, value, st) ==
    IF st.envs[self].enclosing # null /\ Has(st.envs[self].values, name)
    THEN runtimeError(st, "Variable '" \o name \o "' has already been declared.")
    ELSE Ok([st EXCEPT !.envs[self].values = MapSet(@, name, value)], Undef)

\* a get that yields nil for a name its target frame does not hold
get_orNil(self, name, distance, st) ==
    LET t == targetValues(self, distance, st.envs)
    IN  IF t.thrown THEN Throw(st, "Error", "Can't find environment at distance")
        ELSE IF Has(st.envs[t.env].values, name)
        THEN Ok(st, st.envs[t.env].values[name])
        ELSE Ok(st, Nil)

get(self, name, distance, st) ==
    LET t == targetValues(self, distance, st.envs)
    IN  IF t.thrown THEN Throw(st, "Error", "Can't find environment at distance")
        ELSE IF Has(st.envs[t.env].values, name)
        THEN Ok(st, st.envs[t.env].values[name])
        ELSE runtimeError(st, "Undefined variable '" \o name \o "'.")

\* an assign that creates the binding its target frame lacks
assign_creating(self, name, value, distance, st) ==
    LET t == targetValues(self, distance, st.envs)
    IN  IF t.thrown THEN Throw(st, "Error", "Can't find environment at distance")
        ELSE Ok([st EXCEPT !.envs[t.env].values = MapSet(@, name, value)], Undef)

assign(self, name, value, distance, st) ==
    LET t == targetValues(self, distance, st.envs)
    IN  IF t.thrown THEN Throw(st, "Error", "Can't find environment at distance")
        ELSE IF ~Has(st.envs[t.env].values, name)
        THEN runtimeError(st, "Undefined variable '" \o name \o "'.")
        ELSE Ok([st EXCEPT !.envs[t.env].values = MapSet(@, name, value)], Undef)

-----------------------------------------------------------------------------
(* Resolver (resolver.ts).  The resolver's state is                        *)
(* [scopes, closureErrors, errors, locals]: `closureErrors` is the array   *)
(* `errors` of createResolver's body, which scope.declare pushes to;       *)
(* `errors` is the array of the object createResolver returns, which the   *)
(* visitors push to and resolve() tests.  The visitors that share a name   *)
(* with one of the interpreter carry the prefix R_.                        *)

createResolver ==
    [scopes |-> <<>>, closureErrors |-> <<>>, errors |-> <<>>, locals |-> EmptyMap]

scope_push(type, rs) ==
    [rs EXCEPT !.scopes = Append(@, [type |-> type, vars |-> EmptyMap])]

scope_pop(rs) ==
    [rs EXCEPT !.scopes = SubSeq(@, 1, Len(@) - 1)]

scope_declare(name, rs) ==
    IF rs.scopes = <<>> THEN rs
    ELSE LET top == Len(rs.scopes)
         IN  [rs EXCEPT
                !.closureErrors =
                    IF Has(rs.scopes[top].vars, name)
                    THEN Append(@, "Variable with name '" \o name
                                   \o "' already declared in this scope.")
                    ELSE @,
                !.scopes[top].vars = MapSet(@, name, FALSE)]

scope_define(name, rs) ==
    IF rs.scopes = <<>> THEN rs
    ELSE [rs EXCEPT !.scopes[Len(rs.scopes)].vars = MapSet(@, name, TRUE)]

scope_get(name, rs) ==
    IF rs.scopes = <<>> THEN "not_declared"
    ELSE LET top == rs.scopes[Len(rs.scopes)].vars
         IN  IF ~Has(top, name) THEN "not_declared"
             ELSE IF top[name] THEN "defined" ELSE "not_defined"

RECURSIVE FindScope(_, _, _)
\* the innermost scope (1-based) at or below i that holds name, 0 when none
FindScope(scopes, i, name) ==
    IF i < 1 THEN 0
    ELSE IF Has(scopes[i].vars, name) THEN i
    ELSE FindScope(scopes, i - 1, name)

\* resolveLocal that records the position of the declaring scope on the stack
resolveLocal_fromBottom(id, name, rs) ==
    LET i == FindScope(rs.scopes, Len(rs.scopes), name)
    IN  IF i = 0 THEN rs
        ELSE [rs EXCEPT !.locals = MapSet(@, id, i - 1)]

resolveLocal(id, name, rs) ==
    LET i == FindScope(rs.scopes, Len(rs.scopes), name)
    IN  IF i = 0 THEN rs
        ELSE [rs EXCEPT !.locals = MapSet(@, id, Len(rs.scopes) - i)]

RECURSIVE resolveStmts(_, _, _)
RECURSIVE resolveExpr(_, _)
RECURSIVE resolveArgs(_, _)
RECURSIVE declareParameters(_, _)

\* a block that resolves its statements with a scope type of its own
R_visitBlockStmt_ownType(stmt, type, rs) ==
    Then(scope_push("global", rs), LAMBDA pushed :
    Then(resolveStmts(stmt.statements, "global", pushed), LAMBDA resolved :
    scope_pop(resolved)))

R_visitBlockStmt(stmt, type, rs) ==
    Then(scope_push(type, rs), LAMBDA pushed :
    Then(resolveStmts(stmt.statements, type, pushed), LAMBDA resolved :
    scope_pop(resolved)))

\* visitVarDeclStmt that defines the name before it resolves the initializer
R_visitVarDeclStmt_defineFirst(stmt, rs) ==
    Then(scope_declare(stmt.name, rs), LAMBDA declared :
    Then(scope_define(stmt.name, declared), LAMBDA defined :
    IF stmt.initializer # NoNode
    THEN resolveExpr(stmt.initializer, defined)
    ELSE defined))

R_visitVarDeclStmt(stmt, rs) ==
    Then(scope_declare(stmt.name, rs), LAMBDA declared :
    Then(IF stmt.initializer # NoNode
         THEN resolveExpr(stmt.initializer, declared)
         ELSE declared, LAMBDA resolved :
    scope_define(stmt.name, resolved)))

declareParameters(parameters, rs) ==
    IF parameters = <<>> THEN rs
    ELSE Then(scope_declare(Head(parameters), rs), LAMBDA declared :
         Then(scope_define(Head(parameters), declared), LAMBDA defined :
         declareParameters(Tail(parameters), defined)))

resolveFunction(func, rs, type) ==
    Then(scope_push(type, rs), LAMBDA pushed :
    Then(declareParameters(func.parameters, pushed), LAMBDA declared :
    Then(resolveStmts(func.body, type, declared), LAMBDA resolved :
    scope_pop(resolved))))

R_visitFunctionStmt(stmt, rs) ==
    Then(scope_declare(stmt.name, rs), LAMBDA declared :
    Then(scope_define(stmt.name, declared), LAMBDA defined :
    resolveFunction(stmt, defined, "function")))

R_visitExprStmt(stmt, rs) == resolveExpr(stmt.expression, rs)

R_visitIfStmt(stmt, type, rs) ==
    Then(resolveExpr(stmt.condition, rs), LAMBDA cond :
    Then(resolveStmts(<<stmt.thenBranch>>, type, cond), LAMBDA then :
    IF stmt.elseBranch # NoNode
    THEN resolveStmts(<<stmt.elseBranch>>, type, then)
    ELSE then))

R_visitWhileStmt(stmt, rs) ==
    Then(resolveExpr(stmt.condition, rs), LAMBDA cond :
    resolveStmts(<<stmt.body>>, "loop", cond))

R_visitBreakStmt(stmt, type, rs) ==
    IF type # "loop"
    THEN [rs EXCEPT !.errors = Append(@, "Can't break outside of a loop.")]
    ELSE rs

R_visitPrintStmt(stmt, rs) == resolveExpr(stmt.expression, rs)

R_visitReturnStmt(stmt, type, rs) ==
    Then(IF type = "global"
         THEN [rs EXCEPT !.errors = Append(@, "Can't return from top-level code.")]
         ELSE rs, LAMBDA checked :
    IF stmt.value # NoNode THEN resolveExpr(stmt.value, checked) ELSE checked)

R_visitVariable(e, rs) ==
    Then(IF scope_get(e.name, rs) = "not_defined"
         THEN [rs EXCEPT !.errors = Append(@,
                  "Can't read local variable in its own initializer.")]
         ELSE rs, LAMBDA checked :
    resolveLocal(e.id, e.name, checked))

R_visitAssignment(e, rs) ==
    Then(resolveExpr(e.value, rs), LAMBDA resolved :
    resolveLocal(e.id, e.name, resolved))

resolveArgs(args, rs) ==
    IF args = <<>> THEN rs
    ELSE Then(resolveExpr(Head(args), rs), LAMBDA resolved :
         resolveArgs(Tail(args), resolved))

R_visitCall(e, rs) ==
    Then(resolveExpr(e.callee, rs), LAMBDA callee :
    resolveArgs(e.args, callee))

R_visitGrouping(e, rs) == resolveExpr(e.expression, rs)

R_visitLiteral(e, rs) == rs

R_visitBinary(e, rs) ==
    Then(resolveExpr(e.left, rs), LAMBDA left :
    resolveExpr(e.right, left))

R_visitLogical(e, rs) ==
    Then(resolveExpr(e.left, rs), LAMBDA left :
    resolveExpr(e.right, left))

R_visitUnary(e, rs) == resolveExpr(e.right, rs)

R_visitFunction(e, rs) == resolveFunction(e, rs, "function")

resolveExpr(e, rs) ==
    CASE e.type = "literal" -> R_visitLiteral(e, rs)
      [] e.type = "grouping" -> R_visitGrouping(e, rs)
      [] e.type = "unary" -> R_visitUnary(e, rs)
      [] e.type = "binary" -> R_visitBinary(e, rs)
      [] e.type = "logical" -> R_visitLogical(e, rs)
      [] e.type = "variable" -> R_visitVariable(e, rs)
      [] e.type = "assignment" -> R_visitAssignment(e, rs)
      [] e.type = "call" -> R_visitCall(e, rs)
      [] e.type = "anonymousFunction" -> R_visitFunction(e, rs)

\* the switch of resolveStmts' loop body
resolveStmt(statement, type, rs) ==
    CASE statement.type = "block" -> R_visitBlockStmt(statement, type, rs)
      [] statement.type = "varDecl" -> R_visitVarDeclStmt(statement, rs)
      [] statement.type = "function" -> R_visitFunctionStmt(statement, rs)
      [] statement.type = "exprStmt" -> R_visitExprStmt(statement, rs)
      [] statement.type = "ifStmt" -> R_visitIfStmt(statement, type, rs)
      [] statement.type = "whileStmt" -> R_visitWhileStmt(statement, rs)
      [] statement.type = "breakStmt" -> R_visitBreakStmt(statement, type, rs)
      [] statement.type = "returnStmt" -> R_visitReturnStmt(statement, type, rs)
      [] statement.type = "printStmt" -> R_visitPrintStmt(statement, rs)

resolveStmts(statements, type, rs) ==
    IF statements = <<>> THEN rs
    ELSE Then(resolveStmt(Head(statements), type, rs), LAMBDA resolved :
         resolveStmts(Tail(statements), type, resolved))

\* resolve(statements): the resolver after the pass; resolve throws the
\* aggregate LoxError when its `errors` is not empty, else returns `locals`.
resolve(statements) == resolveStmts(statements, "global", createResolver)

-----------------------------------------------------------------------------
(* Interpreter (interpreter.ts, core/literal.ts).  A context is            *)
(* [environment, locals]; the state threaded through the visitors is       *)
(* [envs, out, nfun, steps, calls].                                        *)

\* context.locals.get(expr)
LocalsGet(ls, id) == IF Has(ls, id) THEN ls[id] ELSE undefined

isTruthy(value) ==
    IF value.k \in {"nil", "undefined"} THEN FALSE
    ELSE IF value.k = "bool" THEN value.v
    ELSE TRUE

isEqual(a, b) ==
    IF a.k \in {"nil", "undefined"} THEN b.k \in {"nil", "undefined"}
    ELSE a.k = b.k /\ a = b

\* the template literal `${left}${right}` on a number or a string
Template(value) == IF value.k = "num" THEN ToString(value.v) ELSE value.v

\* JavaScript's % on integers: the result takes the sign of the dividend
JsRem(a, b) ==
    LET abs(x) == IF x < 0 THEN 0 - x ELSE x
        m == abs(a) % abs(b)
    IN  IF a < 0 THEN 0 - m ELSE m

ensureNumber(value, operator, st) ==
    IF value.k # "num"
    THEN runtimeError(st, "Operand of " \o operator \o " must be a number")
    ELSE Ok(st, value)

\* createFunction(declaration, closure, execFn): the frozen function object
createFunction(declaration, closure, st) ==
    Ok([st EXCEPT !.nfun = @ + 1],
       [k |-> "fun", fid |-> st.nfun + 1, closure |-> closure,
        declaration |-> declaration])

\* A visitor's statements after a call that may throw: the exception r
\* propagates, else the visitor goes on (K) with the call's result.
Bind(r, K(_)) == Then(r, LAMBDA x : IF x.sig # "none" THEN x ELSE K(x))

\* What a statement visitor returns after its last call: `return undefined`.
Void(r) == Bind(r, LAMBDA x : Ok(x.st, Undef))

RECURSIVE executeStmt(_, _, _)
RECURSIVE evaluateExpr(_, _, _)
RECURSIVE executeStatements(_, _, _)
RECURSIVE evaluateArgs(_, _, _, _)
RECURSIVE visitWhileStmt(_, _, _)
RECURSIVE bindParameters(_, _, _, _, _)

visitReturnStmt(stmt, ctx, st) ==
    IF stmt.value = NoNode THEN returnError(st, Nil)
    ELSE Bind(evaluateExpr(stmt.value, ctx, st),
              LAMBDA value : returnError(value.st, value.v))

visitFunctionStmt(stmt, ctx, st) ==
    Bind(createFunction(stmt, ctx.environment, st),
         LAMBDA fun : define(ctx.environment, stmt.name, fun.v, fun.st))

\* a statement loop that goes on after a statement threw, and throws at its end
executeStatements_continue(statements, ctx, st) ==
    IF statements = <<>> THEN Ok(st, Undef)
    ELSE Then(executeStmt(Head(statements), ctx, st), LAMBDA r :
         Then(executeStatements(Tail(statements), ctx, r.st), LAMBDA rest :
         IF r.sig # "none" THEN [r EXCEPT !.st = rest.st] ELSE rest))

\* a loop whose later statements run in the frame the earlier ones left behind
executeStatements_leaking(statements, ctx, st) ==
    IF statements = <<>> THEN Ok(st, Undef)
    ELSE Bind(executeStmt(Head(statements), ctx, st),
              LAMBDA r : executeStatements(Tail(statements),
                                           [ctx EXCEPT !.environment = Len(r.st.envs)],
                                           r.st))

\* the for loop of executeBlock
executeStatements(statements, ctx, st) ==
    IF statements = <<>> THEN Ok(st, Undef)
    ELSE Bind(executeStmt(Head(statements), ctx, st),
              LAMBDA r : executeStatements(Tail(statements), ctx, r.st))

\* the block's statements against the frame createEnvironment just made
InScope(statements, ctx, created) ==
    executeStatements(statements,
                      [ctx EXCEPT !.environment = Len(created.envs)], created)

\* a block that runs its statements in the environment it was given
executeBlock_sameEnvironment(statements, ctx, st) ==
    Void(executeStatements(statements, ctx, st))

executeBlock(statements, ctx, st) ==
    Then(createEnvironment(ctx.environment, st), LAMBDA created :
    Void(InScope(statements, ctx, created)))

visitBlockStmt(stmt, ctx, st) == executeBlock(stmt.statements, ctx, st)

visitExpressionStmt(stmt, ctx, st) == evaluateExpr(stmt.expression, ctx, st)

visitIfStmt(stmt, ctx, st) ==
    Bind(evaluateExpr(stmt.condition, ctx, st),
         LAMBDA condition :
            IF isTruthy(condition.v)
            THEN Void(executeStmt(stmt.thenBranch, ctx, condition.st))
            ELSE IF stmt.elseBranch # NoNode
            THEN Void(executeStmt(stmt.elseBranch, ctx, condition.st))
            ELSE Ok(condition.st, Undef))

visitPrintStmt(stmt, ctx, st) ==
    Bind(evaluateExpr(stmt.expression, ctx, st),
         LAMBDA value :
            Ok([value.st EXCEPT !.out =
                    Append(@, [via |-> "print", value |-> value.v])], Undef))

visitVarDeclStmt(stmt, ctx, st) ==
    IF stmt.initializer = NoNode
    THEN define(ctx.environment, stmt.name, Nil, st)
    ELSE Bind(evaluateExpr(stmt.initializer, ctx, st),
              LAMBDA value : define(ctx.environment, stmt.name, value.v, value.st))

\* a loop without its catch: the break signal goes on to the loop's caller
WhileCatch_rethrow(stmt, ctx, body) ==
    IF body.sig = "none" THEN visitWhileStmt(stmt, ctx, body.st) ELSE body

\* a loop that catches the return signal as it catches the break signal
WhileCatch_anySignal(stmt, ctx, body) ==
    IF body.sig = "none" THEN visitWhileStmt(stmt, ctx, body.st)
    ELSE IF IsBreakError(body) \/ IsReturnError(body) THEN Ok(body.st, Undef)
    ELSE body

\* the try/catch around the loop body, and the next turn of the loop
WhileCatch(stmt, ctx, body) ==
    IF body.sig = "none" THEN visitWhileStmt(stmt, ctx, body.st)
    ELSE IF IsBreakError(body) THEN Ok(body.st, Undef)
    ELSE body

visitWhileStmt(stmt, ctx, st) ==
    Bind(evaluateExpr(stmt.condition, ctx, st),
         LAMBDA condition :
            IF ~isTruthy(condition.v) THEN Ok(condition.st, Undef)
            ELSE IF condition.st.steps >= MaxSteps
            THEN Throw(condition.st, "Cut", "")
            ELSE Then(executeStmt(stmt.body, ctx,
                                  [condition.st EXCEPT !.steps = @ + 1]),
                      LAMBDA body : WhileCatch(stmt, ctx, body)))

visitBreakStmt(stmt, st) == breakError(st, "Break outside of loop.")

executeStmt(stmt, ctx, st) ==
    CASE stmt.type = "exprStmt" -> visitExpressionStmt(stmt, ctx, st)
      [] stmt.type = "ifStmt" -> visitIfStmt(stmt, ctx, st)
      [] stmt.type = "printStmt" -> visitPrintStmt(stmt, ctx, st)
      [] stmt.type = "varDecl" -> visitVarDeclStmt(stmt, ctx, st)
      [] stmt.type = "block" -> visitBlockStmt(stmt, ctx, st)
      [] stmt.type = "whileStmt" -> visitWhileStmt(stmt, ctx, st)
      [] stmt.type = "breakStmt" -> visitBreakStmt(stmt, st)
      [] stmt.type = "function" -> visitFunctionStmt(stmt, ctx, st)
      [] stmt.type = "returnStmt" -> visitReturnStmt(stmt, ctx, st)

visitFunction(e, ctx, st) == createFunction(e, ctx.environment, st)

visitAssignment(e, ctx, st) ==
    Bind(evaluateExpr(e.value, ctx, st),
         LAMBDA value :
            Bind(assign(ctx.environment, e.name, value.v,
                        LocalsGet(ctx.locals, e.id), value.st),
                 LAMBDA a : Ok(a.st, value.v)))

\* expr.args.map((arg) => evaluateExpr(arg, context)); done holds the values so far
evaluateArgs(args, done, ctx, st) ==
    IF args = <<>> THEN Ok(st, done)
    ELSE Bind(evaluateExpr(Head(args), ctx, st),
              LAMBDA r : evaluateArgs(Tail(args), Append(done, r.v), ctx, r.st))

\* the parameter loop of a function object's call
bindParameters(parameters, args, i, scope, st) ==
    IF i > Len(parameters) THEN Ok(st, Undef)
    ELSE IF i > Len(args) THEN Throw(st, "Error", "Argument is undefined")
    ELSE Bind(define(scope, parameters[i], args[i], st),
              LAMBDA d : bindParameters(parameters, args, i + 1, scope, d.st))

\* execFn of visitFunctionStmt and visitFunction
execFn(declaration, enclosing, ctx, st) ==
    executeBlock(declaration.body, [ctx EXCEPT !.environment = enclosing], st)

\* the try/catch around execFn, and `return null`
CallCatch(r) ==
    IF r.sig = "none" THEN Ok(r.st, Nil)
    ELSE IF IsReturnError(r) THEN Ok(r.st, r.v)
    ELSE r

\* a function object's call, from its fresh frame `scope` on
CallInScope(callee, args, ctx, scope, created) ==
    Bind(bindParameters(callee.declaration.parameters, args, 1, scope, created),
         LAMBDA bound :
            Then(execFn(callee.declaration, scope, ctx,
                        [bound.st EXCEPT !.calls =
                            Append(@, [fid |-> callee.fid, args |-> args])]),
                 LAMBDA r : CallCatch(r)))

\* callee.call(args): a function object's call, or the native clock
callFunction(callee, args, ctx, st) ==
    IF callee.k = "native" THEN Ok(st, NumV(st.now))
    ELSE IF st.steps >= MaxSteps THEN Throw(st, "Cut", "")
    ELSE Then(createEnvironment(callee.closure, [st EXCEPT !.steps = @ + 1]),
              LAMBDA created :
                 CallInScope(callee, args, ctx, Len(created.envs), created))

\* visitCall once the callee and the arguments are evaluated
CheckedCall(callee, args, ctx, st) ==
    IF ~isCallable(callee)
    THEN runtimeError(st, "Can only call functions and classes.")
    ELSE IF Len(args) # arity(callee)
    THEN runtimeError(st, "Expected " \o ToString(arity(callee))
                          \o " arguments but got " \o ToString(Len(args)) \o ".")
    ELSE callFunction(callee, args, ctx, st)

\* a call that checks its callee before it evaluates the arguments
visitCall_checkFirst(e, ctx, st) ==
    Bind(evaluateExpr(e.callee, ctx, st),
         LAMBDA callee :
            IF ~isCallable(callee.v)
            THEN runtimeError(callee.st, "Can only call functions and classes.")
            ELSE Bind(evaluateArgs(e.args, <<>>, ctx, callee.st),
                      LAMBDA args : CheckedCall(callee.v, args.v, ctx, args.st)))

visitCall(e, ctx, st) ==
    Bind(evaluateExpr(e.callee, ctx, st),
         LAMBDA callee :
            Bind(evaluateArgs(e.args, <<>>, ctx, callee.st),
                 LAMBDA args : CheckedCall(callee.v, args.v, ctx, args.st)))

\* a logical operator that evaluates both operands before it chooses
visitLogical_eager(e, ctx, st) ==
    Bind(evaluateExpr(e.left, ctx, st),
         LAMBDA left :
            Bind(evaluateExpr(e.right, ctx, left.st),
                 LAMBDA right :
                    IF e.operator = "OR" /\ isTruthy(left.v) THEN Ok(right.st, left.v)
                    ELSE IF e.operator # "OR" /\ ~isTruthy(left.v)
                    THEN Ok(right.st, left.v)
                    ELSE right))

visitLogical(e, ctx, st) ==
    Bind(evaluateExpr(e.left, ctx, st),
         LAMBDA left :
            IF e.operator = "OR" /\ isTruthy(left.v) THEN left
            ELSE IF e.operator # "OR" /\ ~isTruthy(left.v) THEN left
            ELSE evaluateExpr(e.right, ctx, left.st))

lookUpVariable(name, e, ctx, st) ==
    get(ctx.environment, name, LocalsGet(ctx.locals, e.id), st)

visitVariable(e, ctx, st) == lookUpVariable(e.name, e, ctx, st)

visitLiteral(e, st) == Ok(st, e.value)

visitGrouping(e, ctx, st) == evaluateExpr(e.expression, ctx, st)

visitUnary(e, ctx, st) ==
    Bind(evaluateExpr(e.right, ctx, st),
         LAMBDA right :
            CASE e.operator = "MINUS" ->
                    Bind(ensureNumber(right.v, "-", right.st),
                         LAMBDA n : Ok(n.st, NumV(0 - n.v.v)))
              [] e.operator = "BANG" -> Ok(right.st, BoolV(~isTruthy(right.v)))
              [] OTHER -> runtimeError(right.st, "Unknown unary operator: "
                                                 \o e.operator))

Lexeme(operator) ==
    CASE operator = "GREATER" -> ">"
      [] operator = "GREATER_EQUAL" -> ">="
      [] operator = "LESS" -> "<"
      [] operator = "LESS_EQUAL" -> "<="
      [] operator = "MINUS" -> "-"
      [] operator = "SLASH" -> "/"
      [] operator = "STAR" -> "*"
      [] operator = "PERCENT" -> "%"
      [] operator = "PLUS" -> "+"
      [] OTHER -> operator

\* arithmetic without the zero test: a zero divisor yields JavaScript's
\* Infinity or NaN
Arith_sentinel(operator, a, b, st) ==
    CASE operator = "GREATER" -> Ok(st, BoolV(a > b))
      [] operator = "GREATER_EQUAL" -> Ok(st, BoolV(a >= b))
      [] operator = "LESS" -> Ok(st, BoolV(a < b))
      [] operator = "LESS_EQUAL" -> Ok(st, BoolV(a <= b))
      [] operator = "MINUS" -> Ok(st, NumV(a - b))
      [] operator = "STAR" -> Ok(st, NumV(a * b))
      [] operator \in {"SLASH", "PERCENT"} /\ b = 0 ->
            Ok(st, [k |-> "num", v |-> IF operator = "SLASH" /\ a # 0
                                       THEN "Infinity" ELSE "NaN"])
      [] operator = "SLASH" /\ b # 0 ->
            IF JsRem(a, b) # 0 THEN Throw(st, "Cut", "quotient is no integer")
            ELSE Ok(st, NumV((IF (a < 0) # (b < 0) THEN 0 - 1 ELSE 1)
                             * ((IF a < 0 THEN 0 - a ELSE a)
                                \div (IF b < 0 THEN 0 - b ELSE b))))
      [] operator = "PERCENT" /\ b # 0 -> Ok(st, NumV(JsRem(a, b)))

\* the arithmetic and comparison cases of visitBinary on two numbers
Arith(operator, a, b, st) ==
    CASE operator = "GREATER" -> Ok(st, BoolV(a > b))
      [] operator = "GREATER_EQUAL" -> Ok(st, BoolV(a >= b))
      [] operator = "LESS" -> Ok(st, BoolV(a < b))
      [] operator = "LESS_EQUAL" -> Ok(st, BoolV(a <= b))
      [] operator = "MINUS" -> Ok(st, NumV(a - b))
      [] operator = "STAR" -> Ok(st, NumV(a * b))
      [] operator = "SLASH" ->
            IF b = 0 THEN runtimeError(st, "Division by zero")
            ELSE IF JsRem(a, b) # 0 THEN Throw(st, "Cut", "quotient is no integer")
            ELSE Ok(st, NumV((IF (a < 0) # (b < 0) THEN 0 - 1 ELSE 1)
                             * ((IF a < 0 THEN 0 - a ELSE a)
                                \div (IF b < 0 THEN 0 - b ELSE b))))
      [] operator = "PERCENT" ->
            IF b = 0 THEN runtimeError(st, "Division by zero")
            ELSE Ok(st, NumV(JsRem(a, b)))

\* visitBinary's switch, on the values of the two operands
BinaryOp(operator, left, right, st) ==
    CASE operator \in {"GREATER", "GREATER_EQUAL", "LESS", "LESS_EQUAL", "MINUS",
                       "SLASH", "STAR", "PERCENT"} ->
            Bind(ensureNumber(left, Lexeme(operator), st),
                 LAMBDA l :
                    Bind(ensureNumber(right, Lexeme(operator), st),
                         LAMBDA r : Arith(operator, left.v, right.v, st)))
      [] operator = "PLUS" ->
            IF left.k = "num" /\ right.k = "num"
            THEN Ok(st, NumV(left.v + right.v))
            ELSE IF left.k \in {"num", "str"} /\ right.k \in {"num", "str"}
            THEN Ok(st, StrV(Template(left) \o Template(right)))
            ELSE runtimeError(st, "Operands of + must be numbers or strings")
      [] operator = "EQUAL_EQUAL" -> Ok(st, BoolV(isEqual(left, right)))
      [] operator = "BANG_EQUAL" -> Ok(st, BoolV(~isEqual(left, right)))
      [] OTHER -> runtimeError(st, "Unknown binary operator: " \o operator)

visitBinary(e, ctx, st) ==
    Bind(evaluateExpr(e.left, ctx, st),
         LAMBDA left :
            Bind(evaluateExpr(e.right, ctx, left.st),
                 LAMBDA right : BinaryOp(e.operator, left.v, right.v, right.st)))

evaluateExpr(e, ctx, st) ==
    CASE e.type = "literal" -> visitLiteral(e, st)
      [] e.type = "grouping" -> visitGrouping(e, ctx, st)
      [] e.type = "unary" -> visitUnary(e, ctx, st)
      [] e.type = "binary" -> visitBinary(e, ctx, st)
      [] e.type = "logical" -> visitLogical(e, ctx, st)
      [] e.type = "variable" -> visitVariable(e, ctx, st)
      [] e.type = "assignment" -> visitAssignment(e, ctx, st)
      [] e.type = "call" -> visitCall(e, ctx, st)
      [] e.type = "anonymousFunction" -> visitFunction(e, ctx, st)

-----------------------------------------------------------------------------
(* Scanner (scanner.ts).  A source is a sequence of characters, each a     *)
(* one-character string; source[i] of the code is source[i + 1] here.  The *)
(* generator's locals are the record [source, start, current, line,        *)
(* errors]; a run of the generator up to its next yield is the operator    *)
(* Resume, which returns [sc, yield, sig].                                 *)

NUL == "NUL"

SINGLE_TOKENS ==
    [ch \in {"(", ")", "{", "}", ",", ".", "-", "+", ";", "*", "/", "%"} |->
        CASE ch = "(" -> "LEFT_PAREN" [] ch = ")" -> "RIGHT_PAREN"
          [] ch = "{" -> "LEFT_BRACE" [] ch = "}" -> "RIGHT_BRACE"
          [] ch = "," -> "COMMA" [] ch = "." -> "DOT"
          [] ch = "-" -> "MINUS" [] ch = "+" -> "PLUS"
          [] ch = ";" -> "SEMICOLON" [] ch = "*" -> "STAR"
          [] ch = "/" -> "SLASH" [] ch = "%" -> "PERCENT"]

TWO_CHAR_OPERATORS ==
    [ch \in {"!", "=", "<", ">"} |->
        CASE ch = "!" -> [withEq |-> "BANG_EQUAL", withoutEq |-> "BANG"]
          [] ch = "=" -> [withEq |-> "EQUAL_EQUAL", withoutEq |-> "EQUAL"]
          [] ch = "<" -> [withEq |-> "LESS_EQUAL", withoutEq |-> "LESS"]
          [] ch = ">" -> [withEq |-> "GREATER_EQUAL", withoutEq |-> "GREATER"]]

TOKEN_KEYWORDS ==
    [w \in {"and", "class", "else", "false", "fun", "for", "if", "nil", "or",
            "print", "return", "super", "this", "true", "var", "while"} |->
        CASE w = "and" -> "AND" [] w = "class" -> "CLASS" [] w = "else" -> "ELSE"
          [] w = "false" -> "FALSE" [] w = "fun" -> "FUN" [] w = "for" -> "FOR"
          [] w = "if" -> "IF" [] w = "nil" -> "NIL" [] w = "or" -> "OR"
          [] w = "print" -> "PRINT" [] w = "return" -> "RETURN"
          [] w = "super" -> "SUPER" [] w = "this" -> "THIS" [] w = "true" -> "TRUE"
          [] w = "var" -> "VAR" [] w = "while" -> "WHILE"]

\* token(type, lexeme, literal, line); a token without literal carries null
token(type, lexeme, value, line) ==
    [type |-> type, lexeme |-> lexeme, literal |-> value, line |-> line]

Digits == <<"0", "1", "2", "3", "4", "5", "6", "7", "8", "9">>

isDigit(ch) == \E d \in DOMAIN Digits : Digits[d] = ch
isAlpha(ch) ==
    ch \in {"a", "b", "c", "d", "e", "f", "g", "h", "i", "j", "k", "l", "m", "n",
            "o", "p", "q", "r", "s", "t", "u", "v", "w", "x", "y", "z",
            "A", "B", "C", "D", "E", "F", "G", "H", "I", "J", "K", "L", "M", "N",
            "O", "P", "Q", "R", "S", "T", "U", "V", "W", "X", "Y", "Z", "_"}
isAlphaNumeric(ch) == isAlpha(ch) \/ isDigit(ch)

\* source[i] ?? "\0"
CharAt(source, i) == IF i >= 0 /\ i < Len(source) THEN source[i + 1] ELSE NUL

RECURSIVE Text(_)
\* the string made of the characters cs
Text(cs) == IF cs = <<>> THEN "" ELSE Head(cs) \o Text(Tail(cs))

\* source.slice(from, to), as characters
slice(source, from, to) == SubSeq(source, from + 1, to)

createScanner(source) ==
    [source |-> source, start |-> 0, current |-> 0, line |-> 1, errors |-> <<>>]

syntaxError(line, message) == [line |-> line, message |-> message]

scan_isAtEnd(sc) == sc.current >= Len(sc.source)
scan_peek(sc, offset) == CharAt(sc.source, sc.current + offset)
scan_advance(sc) == [sc EXCEPT !.current = @ + 1]
scan_match(sc, expected) == ~scan_isAtEnd(sc) /\ scan_peek(sc, 0) = expected
makeToken(sc, type, value) ==
    token(type, Text(slice(sc.source, sc.start, sc.current)), value, sc.line)

\* what one pass of the main loop leaves: the locals and the token it yielded
Scanned(sc, yield) == [sc |-> sc, yield |-> yield]

RECURSIVE processEscapeSequences(_, _, _, _)
\* the loop of processEscapeSequences from position i on, result so far in
\* acc: [value, errors]
processEscapeSequences(raw, i, line, acc) ==
    IF ~(i < Len(raw)) THEN acc
    ELSE IF CharAt(raw, i) = "\\" /\ i + 1 < Len(raw)
    THEN Then(CharAt(raw, i + 1), LAMBDA next :
         Then(CASE next = "n" -> [acc EXCEPT !.value = @ \o "\n"]
                [] next = "t" -> [acc EXCEPT !.value = @ \o "\t"]
                [] next = "r" -> [acc EXCEPT !.value = @ \o "\r"]
                [] next = "\"" -> [acc EXCEPT !.value = @ \o "\""]
                [] next = "\\" -> [acc EXCEPT !.value = @ \o "\\"]
                [] OTHER ->
                     [value |-> acc.value \o next,
                      errors |-> Append(acc.errors,
                          syntaxError(line, "Invalid escape sequence: \\" \o next))],
              LAMBDA a : processEscapeSequences(raw, i + 2, line, a)))
    ELSE Then([acc EXCEPT !.value = @ \o CharAt(raw, i)],
              LAMBDA a : processEscapeSequences(raw, i + 1, line, a))

RECURSIVE StringLoop(_)
\* the while loop of scanString
StringLoop(sc) ==
    IF (scan_peek(sc, 0) # "\"" \/ scan_peek(sc, 0 - 1) = "\\") /\ ~scan_isAtEnd(sc)
    THEN Then([sc EXCEPT !.line = IF scan_peek(sc, 0) = "\n" THEN @ + 1 ELSE @,
                         !.current = @ + 1],
              LAMBDA x : StringLoop(x))
    ELSE sc

scanString(sc0) ==
    Then(StringLoop(sc0), LAMBDA sc :
        IF scan_isAtEnd(sc)
        THEN Scanned([sc EXCEPT !.errors =
                         Append(@, syntaxError(sc.line, "Unterminated string."))],
                     <<>>)
        ELSE Then(scan_advance(sc), LAMBDA closed :
             Then(processEscapeSequences(
                      slice(closed.source, closed.start + 1, closed.current - 1),
                      0, closed.line, [value |-> "", errors |-> closed.errors]),
                  LAMBDA processed :
                     Scanned([closed EXCEPT !.errors = processed.errors],
                             <<makeToken(closed, "STRING", StrV(processed.value))>>))))

RECURSIVE WhileDigit(_)
\* while (isDigit(peek())) advance();
WhileDigit(sc) ==
    IF isDigit(scan_peek(sc, 0)) THEN Then(scan_advance(sc), LAMBDA x : WhileDigit(x))
    ELSE sc

DigitValue(ch) == (CHOOSE d \in DOMAIN Digits : Digits[d] = ch) - 1

RECURSIVE Decimal(_)
\* the number a sequence of digits denotes
Decimal(ds) ==
    IF ds = <<>> THEN 0
    ELSE Decimal(SubSeq(ds, 1, Len(ds) - 1)) * 10 + DigitValue(ds[Len(ds)])

RECURSIVE Significant(_)
\* the digits of a fraction without its trailing zeros
Significant(ds) ==
    IF ds = <<>> \/ ds[Len(ds)] # "0" THEN ds
    ELSE Significant(SubSeq(ds, 1, Len(ds) - 1))

\* parseFloat of digits, or of digits "." digits: an integer is the number
\* itself, another number the pair of its integer part and fraction digits
parseFloat(cs) ==
    LET dot == IF \E i \in DOMAIN cs : cs[i] = "."
               THEN CHOOSE i \in DOMAIN cs : cs[i] = "." ELSE Len(cs) + 1
        whole == Decimal(SubSeq(cs, 1, dot - 1))
        fraction == Significant(SubSeq(cs, dot + 1, Len(cs)))
    IN  IF fraction = <<>> THEN NumV(whole)
        ELSE [k |-> "num", v |-> whole, fraction |-> Text(fraction)]

scanNumber(sc0) ==
    Then(WhileDigit(sc0), LAMBDA whole :
    Then(IF scan_peek(whole, 0) = "." /\ isDigit(scan_peek(whole, 1))
         THEN WhileDigit(scan_advance(whole)) ELSE whole,
         LAMBDA sc :
            Scanned(sc, <<makeToken(sc, "NUMBER",
                            parseFloat(slice(sc.source, sc.start, sc.current)))>>)))

RECURSIVE WhileAlphaNumeric(_)
\* while (isAlphaNumeric(peek())) advance();
WhileAlphaNumeric(sc) ==
    IF isAlphaNumeric(scan_peek(sc, 0))
    THEN Then(scan_advance(sc), LAMBDA x : WhileAlphaNumeric(x))
    ELSE sc

scanIdentifier(sc0) ==
    Then(WhileAlphaNumeric(sc0), LAMBDA sc :
    Then(Text(slice(sc.source, sc.start, sc.current)), LAMBDA text :
        Scanned(sc, <<makeToken(sc, IF text \in DOMAIN TOKEN_KEYWORDS
                                    THEN TOKEN_KEYWORDS[text] ELSE "IDENTIFIER",
                                Nil)>>)))

RECURSIVE WhileComment(_)
\* while (peek() !== "\n" && !isAtEnd()) advance();
WhileComment(sc) ==
    IF scan_peek(sc, 0) # "\n" /\ ~scan_isAtEnd(sc)
    THEN Then(scan_advance(sc), LAMBDA x : WhileComment(x))
    ELSE sc

\* one pass of the main loop's body, on the character ch it has advanced over
scanChar(sc, ch) ==
    IF ch \in {" ", "\r", "\t"} THEN Scanned(sc, <<>>)
    ELSE IF ch = "\n" THEN Scanned([sc EXCEPT !.line = @ + 1], <<>>)
    ELSE IF ch = "/"
    THEN IF scan_match(sc, "/") THEN Scanned(WhileComment(scan_advance(sc)), <<>>)
         ELSE Scanned(sc, <<makeToken(sc, "SLASH", Nil)>>)
    ELSE IF ch = "\"" THEN scanString(sc)
    ELSE IF ch = "'"
    THEN Scanned([sc EXCEPT !.errors =
                     Append(@, syntaxError(sc.line, "Single quotes are not supported."))],
                 <<>>)
    ELSE IF ch \in DOMAIN TWO_CHAR_OPERATORS
    THEN IF scan_match(sc, "=")
         THEN Then(scan_advance(sc), LAMBDA x :
                  Scanned(x, <<makeToken(x, TWO_CHAR_OPERATORS[ch].withEq, Nil)>>))
         ELSE Scanned(sc, <<makeToken(sc, TWO_CHAR_OPERATORS[ch].withoutEq, Nil)>>)
    ELSE IF ch \in DOMAIN SINGLE_TOKENS
    THEN Scanned(sc, <<makeToken(sc, SINGLE_TOKENS[ch], Nil)>>)
    ELSE IF isDigit(ch) THEN scanNumber(sc)
    ELSE IF isAlpha(ch) THEN scanIdentifier(sc)
    ELSE Scanned([sc EXCEPT !.errors =
                     Append(@, syntaxError(sc.line,
                                           "Unexpected character: '" \o ch \o "'"))],
                 <<>>)

EOFToken(line) == token("EOF", "", Nil, line)

RECURSIVE scanTokens(_)
\* a generator that throws as soon as a pass of its loop has recorded an error
scanTokens_abortOnError(sc) ==
    IF scan_isAtEnd(sc)
    THEN IF Len(sc.errors) > 0
         THEN [sc |-> sc, yield |-> <<>>, sig |-> "LoxError"]
         ELSE [sc |-> sc, yield |-> <<EOFToken(sc.line)>>, sig |-> "eof"]
    ELSE Then(scanChar([sc EXCEPT !.start = sc.current, !.current = @ + 1],
                       CharAt(sc.source, sc.current)),
              LAMBDA r : IF Len(r.sc.errors) > 0
                         THEN [sc |-> r.sc, yield |-> <<>>, sig |-> "LoxError"]
                         ELSE IF r.yield # <<>>
                         THEN [sc |-> r.sc, yield |-> r.yield, sig |-> "none"]
                         ELSE scanTokens(r.sc))

\* the generator resumed with locals sc, up to its next yield, its throw
\* (sig "LoxError") or its last yield, of EOF (sig "eof")
scanTokens(sc) ==
    IF scan_isAtEnd(sc)
    THEN IF Len(sc.errors) > 0
         THEN [sc |-> sc, yield |-> <<>>, sig |-> "LoxError"]
         ELSE [sc |-> sc, yield |-> <<EOFToken(sc.line)>>, sig |-> "eof"]
    ELSE Then(scanChar([sc EXCEPT !.start = sc.current, !.current = @ + 1],
                       CharAt(sc.source, sc.current)),
              LAMBDA r : IF r.yield # <<>>
                         THEN [sc |-> r.sc, yield |-> r.yield, sig |-> "none"]
                         ELSE scanTokens(r.sc))

-----------------------------------------------------------------------------
(* Parser (parser.ts) over the token stream of fromArray (token-stream.ts).*)
(* The stream and the error list are the record ps = [tokens, index,       *)
(* errors]; a parsing function returns [sig, node, ps], or [sig, error,    *)
(* ps] with sig "ParseError" when it throws.  A name is kept as its        *)
(* lexeme; a Variable node's identity is the index of its token, an        *)
(* Assignment node's the index of its EQUAL token.                         *)

P_peek(ps) == ps.tokens[ps.index + 1]
P_previous(ps) == ps.tokens[ps.index]
P_isAtEnd(ps) == P_peek(ps).type = "EOF"
P_check(ps, type) == ~P_isAtEnd(ps) /\ P_peek(ps).type = type
P_advance(ps) == [ps EXCEPT !.index = @ + 1]
\* the test of match(...types); the caller advances
P_match(ps, types) == \E type \in types : P_check(ps, type)

parseError(tok, message) ==
    [line |-> tok.line,
     where |-> IF tok.type = "EOF" THEN " at end" ELSE " at '" \o tok.lexeme \o "'",
     message |-> message]

Parsed(ps, node) == [sig |-> "none", node |-> node, ps |-> ps]
P_throw(ps, message) ==
    [sig |-> "ParseError", error |-> parseError(P_peek(ps), message), ps |-> ps]
P_push(ps, tok, message) ==
    [ps EXCEPT !.errors = Append(@, parseError(tok, message))]

P_consume(ps, type, message) ==
    IF P_check(ps, type) THEN Parsed(P_advance(ps), P_peek(ps))
    ELSE P_throw(ps, message)

RECURSIVE P_declaration(_), P_statement(_), P_expression(_), P_blockLoop(_, _),
          P_assignment(_), P_leftSeries(_, _), P_unary(_), P_seriesLoop(_, _),
          P_argumentLoop(_, _), P_callLoop(_)

RECURSIVE P_parameterLoop(_, _, _)
\* do { parameters.push(consume(IDENTIFIER)) } while (match(COMMA)), with the
\* test of the limit in a function declaration
P_parameterLoop(ps, parameters, limited) ==
    Bind(P_consume(IF limited /\ Len(parameters) >= 255
                   THEN P_push(ps, P_peek(ps), "Can't have more than 255 parameters.")
                   ELSE ps,
                   "IDENTIFIER", "Expect parameter name."),
         LAMBDA name :
            IF P_match(name.ps, {"COMMA"})
            THEN P_parameterLoop(P_advance(name.ps),
                                 Append(parameters, name.node.lexeme), limited)
            ELSE Parsed(name.ps, Append(parameters, name.node.lexeme)))

P_parameters(ps, limited) ==
    IF ~P_check(ps, "RIGHT_PAREN") THEN P_parameterLoop(ps, <<>>, limited)
    ELSE Parsed(ps, <<>>)

P_blockStatement(ps) ==
    Bind(P_blockLoop(ps, <<>>), LAMBDA statements :
    Bind(P_consume(statements.ps, "RIGHT_BRACE", "Expect '}' after block."),
         LAMBDA brace : Parsed(brace.ps, statements.node)))

\* while (!check(RIGHT_BRACE) && !isAtEnd()) statements.push(declaration())
P_blockLoop(ps, statements) ==
    IF ~P_check(ps, "RIGHT_BRACE") /\ ~P_isAtEnd(ps)
    THEN Bind(P_declaration(ps),
              LAMBDA d : P_blockLoop(d.ps, Append(statements, d.node)))
    ELSE Parsed(ps, statements)

P_varDeclaration(ps) ==
    Bind(P_consume(ps, "IDENTIFIER", "Expect variable name."), LAMBDA name :
    Bind(IF P_match(name.ps, {"EQUAL"}) THEN P_expression(P_advance(name.ps))
         ELSE Parsed(name.ps, NoNode),
         LAMBDA initializer :
    Bind(P_consume(initializer.ps, "SEMICOLON",
                   "Expect ';' after variable declaration."),
         LAMBDA semicolon :
            Parsed(semicolon.ps, varDecl(name.node.lexeme, initializer.node)))))

P_functionDeclaration(ps, kind) ==
    Bind(P_consume(ps, "IDENTIFIER", "Expect " \o kind \o " name."), LAMBDA name :
    Bind(P_consume(name.ps, "LEFT_PAREN", "Expect '(' after " \o kind \o " name."),
         LAMBDA paren :
    Bind(P_parameters(paren.ps, TRUE), LAMBDA parameters :
    Bind(P_consume(parameters.ps, "RIGHT_PAREN", "Expect ')' after parameters."),
         LAMBDA closing :
    Bind(P_consume(closing.ps, "LEFT_BRACE", "Expect '{' before " \o kind \o " body."),
         LAMBDA brace :
    Bind(P_blockStatement(brace.ps), LAMBDA body :
        Parsed(body.ps, functionStmt(name.node.lexeme, parameters.node, body.node))))))))

P_declaration(ps) ==
    IF P_match(ps, {"FUN"}) THEN P_functionDeclaration(P_advance(ps), "function")
    ELSE IF P_match(ps, {"VAR"}) THEN P_varDeclaration(P_advance(ps))
    ELSE P_statement(ps)

\* consume(LEFT_PAREN); expression(); consume(RIGHT_PAREN) of if and while
P_condition(ps, keyword) ==
    Bind(P_consume(ps, "LEFT_PAREN", "Expect '(' after '" \o keyword \o "'."),
         LAMBDA paren :
    Bind(P_expression(paren.ps), LAMBDA condition :
    Bind(P_consume(condition.ps, "RIGHT_PAREN", "Expect ')' after condition."),
         LAMBDA closing : Parsed(closing.ps, condition.node))))

P_ifStatement(ps) ==
    Bind(P_condition(ps, "if"), LAMBDA condition :
    Bind(P_statement(condition.ps), LAMBDA thenBranch :
    Bind(IF P_match(thenBranch.ps, {"ELSE"}) THEN P_statement(P_advance(thenBranch.ps))
         ELSE Parsed(thenBranch.ps, NoNode),
         LAMBDA elseBranch :
            Parsed(elseBranch.ps,
                   ifStmt(condition.node, thenBranch.node, elseBranch.node)))))

P_whileStatement(ps) ==
    Bind(P_condition(ps, "while"), LAMBDA condition :
    Bind(P_statement(condition.ps), LAMBDA body :
        Parsed(body.ps, whileStmt(condition.node, body.node))))

P_expressionStatement(ps) ==
    Bind(P_expression(ps), LAMBDA e :
    Bind(P_consume(e.ps, "SEMICOLON", "Expect ';' after expression."),
         LAMBDA semicolon : Parsed(semicolon.ps, expr(e.node))))

\* a loop whose increment runs before the body
Desugared_incrementFirst(initializer, condition, increment, body) ==
    LET withIncrement == IF increment # NoNode THEN block(<<expr(increment), body>>)
                         ELSE body
        loop == whileStmt(IF condition # NoNode THEN condition
                          ELSE literal(BoolV(TRUE)),
                          withIncrement)
    IN  IF initializer # NoNode THEN block(<<initializer, loop>>) ELSE loop

\* the loop a for statement stands for
Desugared(initializer, condition, increment, body) ==
    LET withIncrement == IF increment # NoNode THEN block(<<body, expr(increment)>>)
                         ELSE body
        loop == whileStmt(IF condition # NoNode THEN condition
                          ELSE literal(BoolV(TRUE)),
                          withIncrement)
    IN  IF initializer # NoNode THEN block(<<initializer, loop>>) ELSE loop

P_forStatement(ps) ==
    Bind(P_consume(ps, "LEFT_PAREN", "Expect '(' after 'for'."), LAMBDA paren :
    Bind(IF P_match(paren.ps, {"SEMICOLON"}) THEN Parsed(P_advance(paren.ps), NoNode)
         ELSE IF P_match(paren.ps, {"VAR"}) THEN P_varDeclaration(P_advance(paren.ps))
         ELSE P_expressionStatement(paren.ps),
         LAMBDA initializer :
    Bind(IF P_check(initializer.ps, "SEMICOLON") THEN Parsed(initializer.ps, NoNode)
         ELSE P_expression(initializer.ps),
         LAMBDA condition :
    Bind(P_consume(condition.ps, "SEMICOLON", "Expect ';' after loop condition."),
         LAMBDA semicolon :
    Bind(IF P_check(semicolon.ps, "RIGHT_PAREN") THEN Parsed(semicolon.ps, NoNode)
         ELSE P_expression(semicolon.ps),
         LAMBDA increment :
    Bind(P_consume(increment.ps, "RIGHT_PAREN", "Expect ')' after for clauses."),
         LAMBDA closing :
    Bind(P_statement(closing.ps), LAMBDA body :
        Parsed(body.ps, Desugared(initializer.node, condition.node,
                                  increment.node, body.node)))))))))

P_returnStatement(ps) ==
    IF P_match(ps, {"SEMICOLON"}) THEN Parsed(P_advance(ps), returnStmt(NoNode))
    ELSE Bind(P_expression(ps), LAMBDA value :
         Bind(P_consume(value.ps, "SEMICOLON", "Expect ';' after return."),
              LAMBDA semicolon : Parsed(semicolon.ps, returnStmt(value.node))))

P_breakStatement(ps) ==
    Bind(P_consume(ps, "SEMICOLON", "Expect ';' after break."),
         LAMBDA semicolon : Parsed(semicolon.ps, breakStmt))

P_printStatement(ps) ==
    Bind(P_expression(ps), LAMBDA value :
    Bind(P_consume(value.ps, "SEMICOLON", "Expect ';' after value."),
         LAMBDA semicolon : Parsed(semicolon.ps, print(value.node))))

P_statement(ps) ==
    IF P_match(ps, {"IF"}) THEN P_ifStatement(P_advance(ps))
    ELSE IF P_match(ps, {"PRINT"}) THEN P_printStatement(P_advance(ps))
    ELSE IF P_match(ps, {"RETURN"}) THEN P_returnStatement(P_advance(ps))
    ELSE IF P_match(ps, {"WHILE"}) THEN P_whileStatement(P_advance(ps))
    ELSE IF P_match(ps, {"FOR"}) THEN P_forStatement(P_advance(ps))
    ELSE IF P_match(ps, {"BREAK"}) THEN P_breakStatement(P_advance(ps))
    ELSE IF P_match(ps, {"LEFT_BRACE"})
    THEN Bind(P_blockStatement(P_advance(ps)),
              LAMBDA statements : Parsed(statements.ps, block(statements.node)))
    ELSE P_expressionStatement(ps)

P_functionExpr(ps) ==
    IF ~P_match(ps, {"FUN"}) THEN P_assignment(ps)
    ELSE
    Bind(P_consume(P_advance(ps), "LEFT_PAREN", "Expect '(' after 'fun'."),
         LAMBDA paren :
    Bind(P_parameters(paren.ps, FALSE), LAMBDA parameters :
    Bind(P_consume(parameters.ps, "RIGHT_PAREN", "Expect ')' after parameters."),
         LAMBDA closing :
    Bind(P_consume(closing.ps, "LEFT_BRACE", "Expect '{' before function body."),
         LAMBDA brace :
    Bind(P_blockStatement(brace.ps), LAMBDA body :
        Parsed(body.ps, functionExpr(parameters.node, body.node)))))))

P_expression(ps) == P_functionExpr(ps)

\* the levels of leftSeries, lowest first, and the token types of each
Levels == <<"or", "and", "equality", "comparison", "term", "factor">>

MatchTypes(level) ==
    CASE level = "or" -> {"OR"}
      [] level = "and" -> {"AND"}
      [] level = "equality" -> {"BANG_EQUAL", "EQUAL_EQUAL"}
      [] level = "comparison" -> {"GREATER", "GREATER_EQUAL", "LESS", "LESS_EQUAL"}
      [] level = "term" -> {"MINUS", "PLUS"}
      [] level = "factor" -> {"SLASH", "STAR", "PERCENT"}

\* a ladder with term and factor in each other's place
P_exprFn_swapped(level, ps) ==
    CASE level = "or" -> P_leftSeries("and", ps)
      [] level = "and" -> P_leftSeries("equality", ps)
      [] level = "equality" -> P_leftSeries("comparison", ps)
      [] level = "comparison" -> P_leftSeries("factor", ps)
      [] level = "factor" -> P_leftSeries("term", ps)
      [] level = "term" -> P_unary(ps)

\* exprFn of a level: the next level, unary below factor
P_exprFn(level, ps) ==
    CASE level = "or" -> P_leftSeries("and", ps)
      [] level = "and" -> P_leftSeries("equality", ps)
      [] level = "equality" -> P_leftSeries("comparison", ps)
      [] level = "comparison" -> P_leftSeries("term", ps)
      [] level = "term" -> P_leftSeries("factor", ps)
      [] level = "factor" -> P_unary(ps)

P_leftSeries(level, ps) ==
    Bind(P_exprFn(level, ps), LAMBDA first : P_seriesLoop(level, first))

\* while (match(...matchTypes)) expr = binary(expr, previous(), exprFn())
P_seriesLoop(level, left) ==
    IF P_match(left.ps, MatchTypes(level))
    THEN Bind(P_exprFn(level, P_advance(left.ps)),
              LAMBDA right :
                 P_seriesLoop(level,
                     Parsed(right.ps,
                            IF level \in {"or", "and"}
                            THEN logical(left.node, P_peek(left.ps).type, right.node)
                            ELSE binary(left.node, P_peek(left.ps).type, right.node))))
    ELSE left

P_or(ps) == P_leftSeries("or", ps)

P_assignment(ps) ==
    Bind(P_or(ps), LAMBDA e :
        IF P_match(e.ps, {"EQUAL"})
        THEN Bind(P_assignment(P_advance(e.ps)),
                  LAMBDA value :
                     IF e.node.type = "variable"
                     THEN Parsed(value.ps, assignment(e.ps.index + 1, e.node.name,
                                                      value.node))
                     ELSE Parsed(P_push(value.ps, P_peek(e.ps),
                                        "Invalid assignment target."),
                                 e.node))
        ELSE e)

P_primary(ps) ==
    IF P_match(ps, {"FALSE"}) THEN Parsed(P_advance(ps), literal(BoolV(FALSE)))
    ELSE IF P_match(ps, {"TRUE"}) THEN Parsed(P_advance(ps), literal(BoolV(TRUE)))
    ELSE IF P_match(ps, {"NIL"}) THEN Parsed(P_advance(ps), literal(Nil))
    ELSE IF P_match(ps, {"NUMBER", "STRING"})
    THEN Parsed(P_advance(ps), literal(P_peek(ps).literal))
    ELSE IF P_match(ps, {"IDENTIFIER"})
    THEN Parsed(P_advance(ps), variable(ps.index + 1, P_peek(ps).lexeme))
    ELSE IF P_match(ps, {"LEFT_PAREN"})
    THEN Bind(P_expression(P_advance(ps)), LAMBDA e :
         Bind(P_consume(e.ps, "RIGHT_PAREN", "Expect ')' after expression."),
              LAMBDA closing : Parsed(closing.ps, grouping(e.node))))
    ELSE P_throw(ps, "Expect expression.")

\* do { args.push(expression()) } while (match(COMMA))
P_argumentLoop(ps, args) ==
    Bind(P_expression(IF Len(args) >= 255
                      THEN P_push(ps, P_peek(ps), "Can't have more than 255 arguments.")
                      ELSE ps),
         LAMBDA arg :
            IF P_match(arg.ps, {"COMMA"})
            THEN P_argumentLoop(P_advance(arg.ps), Append(args, arg.node))
            ELSE Parsed(arg.ps, Append(args, arg.node)))

P_finishCall(ps, callee) ==
    Bind(IF ~P_check(ps, "RIGHT_PAREN") THEN P_argumentLoop(ps, <<>>)
         ELSE Parsed(ps, <<>>),
         LAMBDA args :
    Bind(P_consume(args.ps, "RIGHT_PAREN", "Expect ')' after arguments."),
         LAMBDA paren : Parsed(paren.ps, call(callee, args.node))))

\* while (true) { if (match(LEFT_PAREN)) expr = finishCall(expr); else break; }
P_callLoop(e) ==
    IF P_match(e.ps, {"LEFT_PAREN"})
    THEN Bind(P_finishCall(P_advance(e.ps), e.node), LAMBDA called : P_callLoop(called))
    ELSE e

P_call(ps) == Bind(P_primary(ps), LAMBDA e : P_callLoop(e))

P_unary(ps) ==
    IF P_match(ps, {"BANG", "MINUS"})
    THEN Bind(P_unary(P_advance(ps)),
              LAMBDA right : Parsed(right.ps, unary(P_peek(ps).type, right.node)))
    ELSE P_call(ps)

SyncTypes == {"CLASS", "FUN", "VAR", "FOR", "IF", "WHILE", "PRINT", "RETURN"}

RECURSIVE SyncLoop(_)
\* the while loop of synchronize
SyncLoop(ps) ==
    IF P_isAtEnd(ps) THEN ps
    ELSE IF P_previous(ps).type = "SEMICOLON" THEN ps
    ELSE IF P_peek(ps).type \in SyncTypes THEN ps
    ELSE Then(P_advance(ps), LAMBDA x : SyncLoop(x))

\* a synchronize that discards everything up to the end
synchronize_toEnd(ps) ==
    IF P_isAtEnd(ps) THEN ps ELSE [ps EXCEPT !.index = Len(ps.tokens) - 1]

synchronize(ps) ==
    IF ~P_isAtEnd(ps) THEN Then(P_advance(ps), LAMBDA x : SyncLoop(x))
    ELSE SyncLoop(ps)

-----------------------------------------------------------------------------
(* The programs the model runs.  Each is drawn in Init from a family with  *)
(* a few parameters; `input` keeps the parameters.  All of them are trees  *)
(* the parser can produce: a declaration stands only in a statement list,  *)
(* and every Variable and Assignment node of a program has its own id.     *)

Vals == {Nil, BoolV(FALSE), BoolV(TRUE), NumV(0), NumV(1), StrV(""), StrV("hi")}
ArgVals == {Nil, NumV(0), NumV(1), StrV("hi")}

str(s) == literal(StrV(s))
num(n) == literal(NumV(n))

\* a statement list as the body of an if or a while
AsStmt(ss) ==
    IF Len(ss) = 1 /\ ss[1].type \notin {"function", "varDecl"} THEN ss[1]
    ELSE block(ss)

Counter(i) == "n" \o ToString(i)

\* `while ((n = n + 1) < 2) body`: the body runs once unless it leaves the loop
OnceCondition(i) ==
    binary(grouping(assignment(200 + 2 * i, Counter(i),
                binary(variable(201 + 2 * i, Counter(i)), "PLUS", num(1)))),
           "LESS", num(2))

Wrappers == {"block", "if", "else", "while", "fun", "anon"}

Wrap(w, i, ss) ==
    CASE w = "block" -> <<block(ss)>>
      [] w = "if" -> <<ifStmt(literal(BoolV(TRUE)), AsStmt(ss), NoNode)>>
      [] w = "else" -> <<ifStmt(literal(Nil), print(str("then")), AsStmt(ss))>>
      [] w = "while" -> <<whileStmt(OnceCondition(i), AsStmt(ss))>>
      [] w = "fun" -> <<functionStmt("f", <<>>, ss),
                        expr(call(variable(100 + i, "f"), <<>>))>>
      [] w = "anon" -> <<expr(call(grouping(functionExpr(<<>>, ss)), <<>>))>>

RECURSIVE Nest(_, _, _)
\* ss inside wraps[i], inside wraps[i-1], ..., inside wraps[1]
Nest(wraps, i, ss) ==
    IF i > Len(wraps) THEN ss ELSE Wrap(wraps[i], i, Nest(wraps, i + 1, ss))

Counters(n) == [i \in 1..n |-> varDecl(Counter(i), num(0))]

SeqsUpTo(S, n) == UNION {[1..m -> S] : m \in 0..n}

\* a break or a return inside up to MaxNest blocks, ifs, loops and functions
NestInputs ==
    [family : {"nest"}, leaf : {"break", "return"}, wraps : SeqsUpTo(Wrappers, MaxNest)]

NestProgram(in) ==
    Counters(Len(in.wraps))
    \o Nest(in.wraps, 1,
            IF in.leaf = "break" THEN <<breakStmt>> ELSE <<returnStmt(NoNode)>>)
    \o <<print(str("end"))>>

\* fun make(c?) { var c = v0; fun inc() { c = c + 1; return c; } return inc; }
\* var a = make(); var b = make(); print a(); print a(); print b();
ClosureInputs ==
    [family : {"closure"}, v0 : 0..MaxCount, captured : {"local", "parameter"},
     inner : {"declaration", "expression"}]

ClosureProgram(in) ==
    LET incBody == <<expr(assignment(1, "c",
                            binary(variable(2, "c"), "PLUS", num(1)))),
                     returnStmt(variable(3, "c"))>>
        inner == IF in.inner = "declaration"
                 THEN <<functionStmt("inc", <<>>, incBody),
                        returnStmt(variable(4, "inc"))>>
                 ELSE <<returnStmt(functionExpr(<<>>, incBody))>>
        make == IF in.captured = "local"
                THEN functionStmt("make", <<>>, <<varDecl("c", num(in.v0))>> \o inner)
                ELSE functionStmt("make", <<"c">>, inner)
        args == IF in.captured = "local" THEN <<>> ELSE <<num(in.v0)>>
    IN  <<make,
          varDecl("a", call(variable(5, "make"), args)),
          varDecl("b", call(variable(6, "make"), args)),
          print(call(variable(7, "a"), <<>>)),
          print(call(variable(8, "a"), <<>>)),
          print(call(variable(9, "b"), <<>>))>>

\* fun f(p1, .., pn) { print p_which; }  f(a1, .., an);
ParamsInputs ==
    UNION {[family : {"params"}, args : [1..n -> ArgVals], which : 1..n]
           : n \in 1..MaxParams}

Param(i) == "p" \o ToString(i)

ParamsProgram(in) ==
    <<functionStmt("f", [i \in 1..Len(in.args) |-> Param(i)],
                   <<print(variable(1, Param(in.which)))>>),
      expr(call(variable(2, "f"), [i \in 1..Len(in.args) |-> literal(in.args[i])]))>>

\* var a = v0; print a; { print a; var a = v1; print a; { ... } print a; } print a;
\* at top level, in a block, or as the body of a function that is then called
ShadowInputs ==
    UNION {[family : {"shadow"}, vals : [0..n -> {NumV(1), StrV("hi")}],
            outer : {"global", "block", "function"}]
           : n \in 1..MaxLevels}

RECURSIVE ShadowLevel(_, _)
ShadowLevel(vals, i) ==
    (IF i > 0 THEN <<print(variable(300 + i, "a"))>> ELSE <<>>)
    \o <<varDecl("a", literal(vals[i])), print(variable(2 * i, "a"))>>
    \o (IF i + 1 \in DOMAIN vals THEN <<block(ShadowLevel(vals, i + 1))>> ELSE <<>>)
    \o <<print(variable(2 * i + 1, "a"))>>

ShadowProgram(in) ==
    IF in.outer = "global" THEN ShadowLevel(in.vals, 0)
    ELSE IF in.outer = "block" THEN <<block(ShadowLevel(in.vals, 0))>>
    ELSE <<functionStmt("f", <<>>, ShadowLevel(in.vals, 0)),
           expr(call(variable(100, "f"), <<>>))>>

\* { .. { var x = v; } .. } print x;  with the read at top level, in an
\* enclosing block, or in an enclosing function body
BlockExitInputs ==
    [family : {"blockexit"}, depth : 1..MaxNest, v : ArgVals,
     reader : {"global", "block", "function"}]

RECURSIVE Blocks(_, _)
Blocks(n, ss) == IF n = 0 THEN ss ELSE <<block(Blocks(n - 1, ss))>>

BlockExitProgram(in) ==
    LET declared == Blocks(in.depth, <<varDecl("x", literal(in.v))>>)
        read == <<print(str("after")), print(variable(1, "x")), print(str("end"))>>
    IN  CASE in.reader = "global" -> declared \o read
          [] in.reader = "block" -> <<block(declared \o read)>>
          [] in.reader = "function" ->
                <<functionStmt("f", <<>>, declared \o read),
                  expr(call(variable(2, "f"), <<>>))>>

\* var i = 0;
\* while (i < N) { i = i + 1; var j = 0;
\*                 while (true) { j = j + 1; if (j == K) <exit>; print j; }
\*                 print "o"; }
\* print "end";
\* <exit> is `break;`, `{ break; }` or the read of an undefined variable
LoopsInputs ==
    [family : {"loops"}, N : 1..MaxCount, K : 1..MaxCount,
     exit : {"break", "blockbreak", "error"}]

LoopsProgram(in) ==
    LET exit == CASE in.exit = "break" -> breakStmt
                  [] in.exit = "blockbreak" -> block(<<breakStmt>>)
                  [] in.exit = "error" -> print(variable(9, "nope"))
        inner == whileStmt(literal(BoolV(TRUE)), block(<<
                    expr(assignment(1, "j", binary(variable(2, "j"), "PLUS", num(1)))),
                    ifStmt(binary(variable(3, "j"), "EQUAL_EQUAL", num(in.K)),
                           exit, NoNode),
                    print(variable(4, "j"))>>))
        outer == whileStmt(binary(variable(5, "i"), "LESS", num(in.N)), block(<<
                    expr(assignment(6, "i", binary(variable(7, "i"), "PLUS", num(1)))),
                    varDecl("j", num(0)),
                    inner,
                    print(str("o"))>>))
    IN  <<varDecl("i", num(0)), outer, print(str("end"))>>

\* fun f() { print "a"; <wraps around: print "b"; return v; print "c";> print "d"; }
\* print f(); print "end";
ReturnWrappers == {"block", "if", "else", "while"}

ReturnInputs ==
    [family : {"return"}, wraps : SeqsUpTo(ReturnWrappers, MaxNest),
     value : {"none", "nil", "number", "string", "absent"}]

ReturnedValue(in) ==
    CASE in.value = "number" -> NumV(7)
      [] in.value = "string" -> StrV("r")
      [] OTHER -> Nil

ReturnProgram(in) ==
    LET ret == CASE in.value = "absent" -> <<>>
                 [] in.value = "none" -> <<returnStmt(NoNode)>>
                 [] OTHER -> <<returnStmt(literal(ReturnedValue(in)))>>
        core == <<print(str("b"))>> \o ret \o <<print(str("c"))>>
    IN  Counters(Len(in.wraps))
        \o <<functionStmt("f", <<>>,
                <<print(str("a"))>> \o Nest(in.wraps, 1, core) \o <<print(str("d"))>>),
             print(call(variable(1, "f"), <<>>)),
             print(str("end"))>>

\* var x = "init"; fun g() { print "g"; return b; }
\* print a op (x = b);   or   print a op g();
\* print x;
LogicInputs ==
    [family : {"logic"}, operator : {"OR", "AND"}, a : Vals, b : Vals,
     right : {"assign", "call"}]

LogicProgram(in) ==
    LET right == IF in.right = "assign"
                 THEN grouping(assignment(1, "x", literal(in.b)))
                 ELSE call(variable(2, "g"), <<>>)
    IN  <<varDecl("x", str("init")),
          functionStmt("g", <<>>, <<print(str("g")), returnStmt(literal(in.b))>>),
          print(logical(literal(in.a), in.operator, right)),
          print(variable(3, "x"))>>

\* fun f() {}  print a op b;   an operand is a literal or the function f
Callable == [k |-> "callable"]
Operands == Vals \cup {NumV(0 - 2), NumV(2), Callable}

BinaryInputs ==
    [family : {"binary"}, operator : {"PLUS", "SLASH", "PERCENT"},
     a : Operands, b : Operands]

Operand(v, id) == IF v = Callable THEN variable(id, "f") ELSE literal(v)

BinaryProgram(in) ==
    <<functionStmt("f", <<>>, <<>>),
      print(binary(Operand(in.a, 1), in.operator, Operand(in.b, 2)))>>

\* fun target(p1, .., pk) { print "body"; }
\* fun c() { print "c"; return <callee>; }   fun a1() { print "1"; return nil; } ..
\* c()(a1(), .., am());  print "end";
CallCheckInputs ==
    [family : {"callcheck"}, callee : {"function", "string", "number", "nil"},
     arity : 0..MaxParams, args : 0..MaxParams]

Arg(i) == "a" \o ToString(i)

CalleeExpr(in) ==
    CASE in.callee = "function" -> variable(1, "target")
      [] in.callee = "string" -> str("target")
      [] in.callee = "number" -> num(1)
      [] in.callee = "nil" -> literal(Nil)

CallCheckProgram(in) ==
    <<functionStmt("target", [i \in 1..in.arity |-> Param(i)],
                   <<print(str("body"))>>),
      functionStmt("c", <<>>, <<print(str("c")), returnStmt(CalleeExpr(in))>>)>>
    \o [i \in 1..in.args |->
           functionStmt(Arg(i), <<>>,
                        <<print(str(ToString(i))), returnStmt(literal(Nil))>>)]
    \o <<expr(call(call(variable(2, "c"), <<>>),
                   [i \in 1..in.args |-> call(variable(10 + i, Arg(i)), <<>>)])),
         print(str("end"))>>

\* var x = 1; x = 2; print x;  <a runtime error at some place>
\* x = 3; var y = 1; print "after";
FailFastInputs ==
    [family : {"failfast"}, error : {"unary", "undefined", "call"},
     place : {"top", "block", "if", "while", "function", "operand", "argument"}]

FailingExpr(in) ==
    CASE in.error = "unary" -> unary("MINUS", literal(Nil))
      [] in.error = "undefined" -> variable(9, "nope")
      [] in.error = "call" -> call(str("s"), <<>>)

SetX(id, n) == assignment(id, "x", num(n))

\* x = 5; <error>; x = 6; print "in";
FailingStatements(in) ==
    <<expr(SetX(20, 5)), expr(FailingExpr(in)), expr(SetX(21, 6)), print(str("in"))>>

FailingPlace(in) ==
    CASE in.place = "top" -> <<expr(FailingExpr(in))>>
      [] in.place = "block" -> <<block(FailingStatements(in))>>
      [] in.place = "if" ->
            <<ifStmt(literal(BoolV(TRUE)), block(FailingStatements(in)), NoNode)>>
      [] in.place = "while" ->
            <<whileStmt(literal(BoolV(TRUE)), block(FailingStatements(in)))>>
      [] in.place = "function" ->
            <<functionStmt("g", <<>>, FailingStatements(in)),
              expr(call(variable(22, "g"), <<>>))>>
      [] in.place = "operand" ->
            <<print(binary(FailingExpr(in), "PLUS", grouping(SetX(23, 6))))>>
      [] in.place = "argument" ->
            <<functionStmt("h", <<"p", "q">>, <<print(str("h"))>>),
              expr(call(variable(24, "h"), <<FailingExpr(in), SetX(25, 6)>>))>>

FailFastProgram(in) ==
    <<varDecl("x", num(1)), expr(SetX(30, 2)), print(variable(31, "x"))>>
    \o FailingPlace(in)
    \o <<expr(SetX(32, 3)), varDecl("y", num(1)), print(str("after"))>>

\* one scope that declares a name twice, in each way a scope can
RedeclareInputs ==
    [family : {"redeclare"},
     kind : {"vars", "params", "paramvar", "funvar", "varfun", "funfun", "two"},
     scope : {"block", "function"}]

Redeclaring(in) ==
    CASE in.kind = "vars" -> <<varDecl("a", num(1)), varDecl("a", num(2))>>
      [] in.kind = "params" -> <<functionStmt("f", <<"a", "a">>, <<>>)>>
      [] in.kind = "paramvar" -> <<functionStmt("f", <<"a">>, <<varDecl("a", num(1))>>)>>
      [] in.kind = "funvar" -> <<functionStmt("a", <<>>, <<>>), varDecl("a", num(1))>>
      [] in.kind = "varfun" -> <<varDecl("a", NoNode), functionStmt("a", <<>>, <<>>)>>
      [] in.kind = "funfun" ->
            <<functionStmt("a", <<>>, <<>>), functionStmt("a", <<>>, <<>>)>>
      [] in.kind = "two" ->
            <<varDecl("a", NoNode), varDecl("a", NoNode),
              varDecl("b", NoNode), varDecl("b", NoNode)>>

RedeclareProgram(in) ==
    IF in.scope = "block" THEN <<block(Redeclaring(in))>>
    ELSE <<functionStmt("outer", <<>>, Redeclaring(in))>>

\* var a = <initializer>; print a;?  inside a block, a function body, a block
\* nested in a block that declares its own a, or a function with parameter a
SelfInitInputs ==
    [family : {"selfinit"},
     init : {"self", "grouped", "sum", "literal", "other", "none"},
     scope : {"block", "function", "nested", "parameter"},
     later : BOOLEAN]

SelfInitializer(in) ==
    CASE in.init = "self" -> variable(1, "a")
      [] in.init = "grouped" -> grouping(variable(1, "a"))
      [] in.init = "sum" -> binary(variable(1, "a"), "PLUS", num(1))
      [] in.init = "literal" -> num(1)
      [] in.init = "other" -> variable(1, "b")
      [] in.init = "none" -> NoNode

SelfInitProgram(in) ==
    LET ss == <<varDecl("a", SelfInitializer(in))>>
              \o (IF in.later THEN <<print(variable(2, "a"))>> ELSE <<>>)
    IN  CASE in.scope = "block" -> <<block(ss)>>
          [] in.scope = "function" -> <<functionStmt("f", <<>>, ss)>>
          [] in.scope = "nested" -> <<block(<<varDecl("a", num(0)), block(ss)>>)>>
          [] in.scope = "parameter" -> <<functionStmt("f", <<"a">>, ss)>>

\* scopes wraps[1] around .. around wraps[n], each a block or the body of a
\* function that is called right after its declaration; decls[l] says whether
\* level l (0 is the top level) declares x, as a variable at the start of the
\* scope or as the parameter of the function; the innermost scope reads or
\* assigns x
DistanceInputs ==
    UNION {{in \in [family : {"distance"}, wraps : [1..n -> {"block", "function"}],
                    decls : [0..n -> {"none", "var", "param"}],
                    ref : {"read", "assign"}] :
               \A l \in 0..n : in.decls[l] = "param" =>
                                   (l >= 1 /\ in.wraps[l] = "function")}
           : n \in 1..MaxNest}

Fn(l) == "f" \o ToString(l)

RECURSIVE DistanceLevel(_, _)
\* the statements of scope level l
DistanceLevel(in, l) ==
    (IF in.decls[l] = "var" THEN <<varDecl("x", num(l))>> ELSE <<>>)
    \o (IF l = Len(in.wraps)
        THEN IF in.ref = "read" THEN <<print(variable(1, "x"))>>
             ELSE <<expr(assignment(1, "x", num(9)))>>
        ELSE IF in.wraps[l + 1] = "block" THEN <<block(DistanceLevel(in, l + 1))>>
        ELSE <<functionStmt(Fn(l + 1),
                            IF in.decls[l + 1] = "param" THEN <<"x">> ELSE <<>>,
                            DistanceLevel(in, l + 1)),
               expr(call(variable(100 + l + 1, Fn(l + 1)),
                         IF in.decls[l + 1] = "param" THEN <<num(l + 1)>>
                         ELSE <<>>))>>)

DistanceProgram(in) == DistanceLevel(in, 0)

\* statement lists handed to interpret as they are, without resolve (the
\* default `locals = new Map()`), as the runner of part_002 and the tests do
DirectInputs ==
    [family : {"direct"},
     which : {"break", "return", "return in loop", "break in call",
              "break in call in loop", "error", "fine"}]

DirectProgram(in) ==
    LET f(body) == functionStmt("f", <<>>, body)
        callF == expr(call(variable(1, "f"), <<>>))
        forever(body) == whileStmt(literal(BoolV(TRUE)), body)
    IN  CASE in.which = "break" -> <<breakStmt, print(str("after"))>>
          [] in.which = "return" -> <<returnStmt(num(1)), print(str("after"))>>
          [] in.which = "return in loop" ->
                <<forever(returnStmt(NoNode)), print(str("after"))>>
          [] in.which = "break in call" ->
                <<f(<<breakStmt>>), callF, print(str("after"))>>
          [] in.which = "break in call in loop" ->
                <<f(<<breakStmt>>), forever(callF), print(str("after"))>>
          [] in.which = "error" ->
                <<expr(unary("MINUS", str("a"))), print(str("after"))>>
          [] in.which = "fine" -> <<print(str("after"))>>

\* a construct that is left in one of the four ways, then var m = 7;
\*   normal:  { .. { var t = 1; } .. }
\*   break:   while (true) { .. { var t = 1; break; } .. }
\*   return:  fun f() { .. { var t = 1; return 1; } .. }  f();
\*   error:   { .. { var t = 1; -"a"; } .. }
\* with depth nested blocks, at top level, inside a block, or inside the body
\* of a function that is called
ExitInputs ==
    [family : {"exits"}, exit : {"normal", "break", "return", "error"},
     depth : 1..MaxNest, outer : {"global", "block", "function"}]

ExitConstruct(in) ==
    LET leave == CASE in.exit = "normal" -> <<>>
                   [] in.exit = "break" -> <<breakStmt>>
                   [] in.exit = "return" -> <<returnStmt(num(1))>>
                   [] in.exit = "error" -> <<expr(unary("MINUS", str("a")))>>
        blocks == Blocks(in.depth, <<varDecl("t", num(1))>> \o leave)
    IN  CASE in.exit = "break" -> <<whileStmt(literal(BoolV(TRUE)), blocks[1])>>
          [] in.exit = "return" ->
                <<functionStmt("f", <<>>, blocks),
                  expr(call(variable(1, "f"), <<>>))>>
          [] OTHER -> blocks

ExitProgram(in) ==
    LET ss == ExitConstruct(in) \o <<varDecl("m", num(7))>>
    IN  CASE in.outer = "global" -> ss
          [] in.outer = "block" -> <<block(ss)>>
          [] in.outer = "function" ->
                <<functionStmt("g", <<>>, ss), expr(call(variable(2, "g"), <<>>))>>

\* the statements of the interpret call that follows on the same environment
NextLine == <<varDecl("n", num(8))>>

\* a source: "body" tail, the body made of up to MaxBody ordinary characters
\* and escapes
Pieces ==
    {<<"a">>, <<" ">>, <<"n">>, <<"\\", "n">>, <<"\\", "t">>, <<"\\", "r">>,
     <<"\\", "\"">>, <<"\\", "\\">>}

Tails == {<<>>, <<";">>, <<" ", "\"", "b", "\"">>}

StringInputs ==
    [family : {"string"}, body : SeqsUpTo(Pieces, MaxBody), tail : Tails]

RECURSIVE Flatten(_)
Flatten(ss) == IF ss = <<>> THEN <<>> ELSE Head(ss) \o Flatten(Tail(ss))

StringLiteral(in) == <<"\"">> \o Flatten(in.body) \o <<"\"">>

StringSource(in) == StringLiteral(in) \o in.tail

\* a source of up to MaxSegments segments, each followed by a blank, some of
\* them scan errors, and at its end possibly a string that is not closed
Segments == {"number", "identifier", "semicolon", "newline", "unexpected",
             "quote", "escape"}

SegmentText(kind) ==
    CASE kind = "number" -> <<"1", "2">>
      [] kind = "identifier" -> <<"a", "b">>
      [] kind = "semicolon" -> <<";">>
      [] kind = "newline" -> <<"\n">>
      [] kind = "unexpected" -> <<"@">>
      [] kind = "quote" -> <<"'">>
      [] kind = "escape" -> <<"\"", "a", "\\", "q", "\"">>

ScanInputs ==
    [family : {"scan"}, segments : SeqsUpTo(Segments, MaxSegments), open : BOOLEAN]

ScanSource(in) ==
    Flatten([i \in 1..Len(in.segments) |-> SegmentText(in.segments[i]) \o <<" ">>])
    \o (IF in.open THEN <<"\"", "x", " ">> ELSE <<>>)

\* a source: one word and a semicolon; the word is a keyword of the language
\* or another identifier
KeywordWords ==
    {<<"a", "n", "d">>, <<"c", "l", "a", "s", "s">>, <<"e", "l", "s",
     "e">>, <<"f", "a", "l", "s", "e">>, <<"f", "u", "n">>, <<"f", "o",
     "r">>, <<"i", "f">>, <<"n", "i", "l">>, <<"o", "r">>, <<"p", "r", "i",
     "n", "t">>, <<"r", "e", "t", "u", "r", "n">>, <<"s", "u", "p", "e",
     "r">>, <<"t", "h", "i", "s">>, <<"t", "r", "u", "e">>, <<"v", "a",
     "r">>, <<"w", "h", "i", "l", "e">>, <<"b", "r", "e", "a", "k">>}

OtherWords ==
    {<<"b", "r", "e", "a", "k", "s">>, <<"b", "r", "e", "a">>, <<"x">>,
     <<"f", "o", "r", "t">>, <<"_", "i", "f">>, <<"a", "1">>, <<"B", "r",
     "e", "a", "k">>}

WordInputs == [family : {"words"}, word : KeywordWords \cup OtherWords]

WordSource(in) == in.word \o <<";">>

Source(in) ==
    CASE in.family = "string" -> StringSource(in)
      [] in.family = "scan" -> ScanSource(in)
      [] in.family = "words" -> WordSource(in)

\* the tokens scanTokens yields for a word or sign, a number and a name
Spelling(type) ==
    CASE type = "LEFT_PAREN" -> "(" [] type = "RIGHT_PAREN" -> ")"
      [] type = "LEFT_BRACE" -> "{" [] type = "RIGHT_BRACE" -> "}"
      [] type = "SEMICOLON" -> ";" [] type = "EQUAL" -> "="
      [] type = "EQUAL_EQUAL" -> "==" [] type = "BANG_EQUAL" -> "!="
      [] type = "PRINT" -> "print" [] type = "VAR" -> "var" [] type = "FOR" -> "for"
      [] type = "IF" -> "if" [] type = "BREAK" -> "break" [] type = "EOF" -> ""
      [] OTHER -> Lexeme(type)

T(type) == token(type, Spelling(type), Nil, 1)
N(n) == token("NUMBER", ToString(n), NumV(n), 1)
Id(name) == token("IDENTIFIER", name, Nil, 1)

\* 1 op 2 op .. ;  with up to MaxOps binary operators, a minus before the
\* first or the last operand, and parentheses around the last operation
BinaryTypes == {"EQUAL_EQUAL", "BANG_EQUAL", "GREATER", "LESS_EQUAL", "PLUS",
                "MINUS", "STAR", "SLASH", "PERCENT"}

ExprInputs ==
    [family : {"expr"}, ops : SeqsUpTo(BinaryTypes, MaxOps),
     unary : {"none", "first", "last"}, group : BOOLEAN]

Negated(in, i) ==
    \/ in.unary = "first" /\ i = 1
    \/ in.unary = "last" /\ i = Len(in.ops) + 1

\* the operand the parentheses open at
GroupStart(in) == IF Len(in.ops) = 0 THEN 1 ELSE Len(in.ops)

ExprTokens(in) ==
    Flatten([i \in 1..(Len(in.ops) + 1) |->
        (IF in.group /\ i = GroupStart(in) THEN <<T("LEFT_PAREN")>> ELSE <<>>)
        \o (IF Negated(in, i) THEN <<T("MINUS")>> ELSE <<>>)
        \o <<N(i)>>
        \o (IF in.group /\ i = Len(in.ops) + 1 THEN <<T("RIGHT_PAREN")>> ELSE <<>>)
        \o (IF i <= Len(in.ops) THEN <<T(in.ops[i])>> ELSE <<>>)])
    \o <<T("SEMICOLON"), T("EOF")>>

\* 1 == 7 == 6 == 4 != 2;   and   1 + 1 * (2 - 1) != 3;
ExampleInputs == [family : {"example"}, which : 1..2]

ExampleTokens(in) ==
    (IF in.which = 1
     THEN <<N(1), T("EQUAL_EQUAL"), N(7), T("EQUAL_EQUAL"), N(6), T("EQUAL_EQUAL"),
            N(4), T("BANG_EQUAL"), N(2)>>
     ELSE <<N(1), T("PLUS"), N(1), T("STAR"), T("LEFT_PAREN"), N(2), T("MINUS"), N(1),
            T("RIGHT_PAREN"), T("BANG_EQUAL"), N(3)>>)
    \o <<T("SEMICOLON"), T("EOF")>>

\* up to MaxPieces statements, some of them with a syntax error
GoodPieces == {"print", "var", "block", "expr"}
SimpleBadPieces == {"noexpr", "nosemi", "noname", "paren"}
BadPieces == SimpleBadPieces \cup {"badblock", "stray"}

RecoverInputs ==
    [family : {"recover"}, pieces : SeqsUpTo(GoodPieces \cup BadPieces, MaxPieces)]

PieceTokens(kind) ==
    CASE kind = "print" -> <<T("PRINT"), N(1), T("SEMICOLON")>>
      [] kind = "var" -> <<T("VAR"), Id("a"), T("SEMICOLON")>>
      [] kind = "block" ->
            <<T("LEFT_BRACE"), T("PRINT"), N(2), T("SEMICOLON"), T("RIGHT_BRACE")>>
      [] kind = "expr" -> <<N(3), T("SEMICOLON")>>
      [] kind = "noexpr" -> <<T("PRINT"), T("SEMICOLON")>>
      [] kind = "nosemi" -> <<T("PRINT"), N(1), T("PRINT"), N(2), T("SEMICOLON")>>
      [] kind = "noname" -> <<T("VAR"), T("SEMICOLON")>>
      [] kind = "paren" -> <<T("LEFT_PAREN"), N(1), T("SEMICOLON")>>
      [] kind = "badblock" ->
            <<T("LEFT_BRACE"), T("PRINT"), T("SEMICOLON"), T("RIGHT_BRACE")>>
      [] kind = "stray" -> <<T("RIGHT_PAREN")>>

RecoverTokens(in) ==
    Flatten([i \in 1..Len(in.pieces) |-> PieceTokens(in.pieces[i])]) \o <<T("EOF")>>

\* [var i = 9;] for ([var] i = 0; [i < n]; [i = i + 1])
\*     { print i; [i = i + 1;] [if (i >= n) break;] }
\* print i;
\* the body increments i when the loop has no increment and breaks when it
\* has no condition
ForInputs ==
    [family : {"for"}, init : {"none", "assign", "var", "shadow"},
     cond : BOOLEAN, inc : BOOLEAN, n : 0..MaxCount]

Increment == <<Id("i"), T("EQUAL"), Id("i"), T("PLUS"), N(1)>>

ForTokens(in) ==
    (IF in.init = "var" THEN <<>>
     ELSE <<T("VAR"), Id("i"), T("EQUAL"), N(IF in.init = "none" THEN 0 ELSE 9),
            T("SEMICOLON")>>)
    \o <<T("FOR"), T("LEFT_PAREN")>>
    \o (IF in.init \in {"var", "shadow"} THEN <<T("VAR")>> ELSE <<>>)
    \o (IF in.init = "none" THEN <<>> ELSE <<Id("i"), T("EQUAL"), N(0)>>)
    \o <<T("SEMICOLON")>>
    \o (IF in.cond THEN <<Id("i"), T("LESS"), N(in.n)>> ELSE <<>>)
    \o <<T("SEMICOLON")>>
    \o (IF in.inc THEN Increment ELSE <<>>)
    \o <<T("RIGHT_PAREN"), T("LEFT_BRACE"), T("PRINT"), Id("i"), T("SEMICOLON")>>
    \o (IF in.inc THEN <<>> ELSE Increment \o <<T("SEMICOLON")>>)
    \o (IF in.cond THEN <<>>
        ELSE <<T("IF"), T("LEFT_PAREN"), Id("i"), T("GREATER_EQUAL"), N(in.n),
               T("RIGHT_PAREN"), T("BREAK"), T("SEMICOLON")>>)
    \o <<T("RIGHT_BRACE"), T("PRINT"), Id("i"), T("SEMICOLON"), T("EOF")>>

\* the first `cut` tokens of a program, then EOF: every way a declaration can
\* be cut short by the end of the input
W(type, lexeme) == token(type, lexeme, Nil, 1)

Whole(base) ==
    CASE base = 1 ->    \* fun f(a, b) { return a; }
            <<W("FUN", "fun"), Id("f"), T("LEFT_PAREN"), Id("a"), W("COMMA", ","),
              Id("b"), T("RIGHT_PAREN"), T("LEFT_BRACE"), W("RETURN", "return"),
              Id("a"), T("SEMICOLON"), T("RIGHT_BRACE")>>
      [] base = 2 ->    \* for (var i = 0; i < 2; i = i + 1) print i;
            <<T("FOR"), T("LEFT_PAREN"), T("VAR"), Id("i"), T("EQUAL"), N(0),
              T("SEMICOLON"), Id("i"), T("LESS"), N(2), T("SEMICOLON"), Id("i"),
              T("EQUAL"), Id("i"), T("PLUS"), N(1), T("RIGHT_PAREN"), T("PRINT"),
              Id("i"), T("SEMICOLON")>>
      [] base = 3 ->    \* if (a) { b = 1; } else print f(1);
            <<T("IF"), T("LEFT_PAREN"), Id("a"), T("RIGHT_PAREN"), T("LEFT_BRACE"),
              Id("b"), T("EQUAL"), N(1), T("SEMICOLON"), T("RIGHT_BRACE"),
              W("ELSE", "else"), T("PRINT"), Id("f"), T("LEFT_PAREN"), N(1),
              T("RIGHT_PAREN"), T("SEMICOLON")>>
      [] base = 4 ->    \* while (true) break;
            <<W("WHILE", "while"), T("LEFT_PAREN"), W("TRUE", "true"),
              T("RIGHT_PAREN"), T("BREAK"), T("SEMICOLON")>>

TruncatedInputs ==
    UNION {[family : {"truncated"}, base : {base}, cut : 0..Len(Whole(base))]
           : base \in 1..4}

TruncatedTokens(in) == SubSeq(Whole(in.base), 1, in.cut) \o <<T("EOF")>>

Tokens(in) ==
    CASE in.family = "expr" -> ExprTokens(in)
      [] in.family = "example" -> ExampleTokens(in)
      [] in.family = "recover" -> RecoverTokens(in)
      [] in.family = "for" -> ForTokens(in)
      [] in.family = "truncated" -> TruncatedTokens(in)

\* input is drawn from one of the families
Drawn ==
    \/ input \in NestInputs
    \/ input \in ClosureInputs
    \/ input \in ParamsInputs
    \/ input \in ShadowInputs
    \/ input \in BlockExitInputs
    \/ input \in LoopsInputs
    \/ input \in ReturnInputs
    \/ input \in LogicInputs
    \/ input \in BinaryInputs
    \/ input \in CallCheckInputs
    \/ input \in FailFastInputs
    \/ input \in RedeclareInputs
    \/ input \in SelfInitInputs
    \/ input \in DistanceInputs
    \/ input \in DirectInputs
    \/ input \in ExitInputs
    \/ input \in StringInputs
    \/ input \in ScanInputs
    \/ input \in WordInputs
    \/ input \in ExprInputs
    \/ input \in ExampleInputs
    \/ input \in RecoverInputs
    \/ input \in ForInputs
    \/ input \in TruncatedInputs

Build(in) ==
    CASE in.family = "nest" -> NestProgram(in)
      [] in.family = "closure" -> ClosureProgram(in)
      [] in.family = "params" -> ParamsProgram(in)
      [] in.family = "shadow" -> ShadowProgram(in)
      [] in.family = "blockexit" -> BlockExitProgram(in)
      [] in.family = "loops" -> LoopsProgram(in)
      [] in.family = "return" -> ReturnProgram(in)
      [] in.family = "logic" -> LogicProgram(in)
      [] in.family = "binary" -> BinaryProgram(in)
      [] in.family = "callcheck" -> CallCheckProgram(in)
      [] in.family = "failfast" -> FailFastProgram(in)
      [] in.family = "redeclare" -> RedeclareProgram(in)
      [] in.family = "selfinit" -> SelfInitProgram(in)
      [] in.family = "distance" -> DistanceProgram(in)
      [] in.family = "direct" -> DirectProgram(in)
      [] in.family = "exits" -> ExitProgram(in)

-----------------------------------------------------------------------------
(* The state machine: resolve(program), then interpret(program, {repl,     *)
(* locals}) one iteration of its statement loop at a time.                 *)

NoError == [sig |-> "none", msg |-> "", v |-> Undef]

\* the stage of the pipeline an input is handed to: a source to scanTokens,
\* a token array to parseAst, a statement list to resolve
Stage(in) ==
    IF in.family \in {"string", "scan", "words"} THEN "scan"
    ELSE IF in.family \in {"expr", "example", "recover", "for", "truncated"}
    THEN "parse"
    ELSE IF in.family = "direct" THEN "interpret"
    ELSE "resolve"

createParser == [index |-> 0, errors |-> <<>>, statements |-> <<>>]

NoOp == [kind |-> "none"]

Init ==
    /\ Drawn
    /\ pc = Stage(input)
    /\ scanner = createScanner(IF pc = "scan" THEN Source(input) ELSE <<>>)
    /\ tokens = IF pc = "parse" THEN Tokens(input) ELSE <<>>
    /\ parser = createParser
    /\ program = IF pc \in {"resolve", "interpret"} THEN Build(input) ELSE <<>>
    /\ repl \in IF pc = "resolve" THEN BOOLEAN ELSE {FALSE}
    /\ locals = EmptyMap
    /\ resolveErrors = <<>>
    /\ op = NoOp
    /\ index = 1
    /\ envs = IF pc = "interpret" THEN <<NewFrame(null, <<>>)>> ELSE <<>>
    /\ out = <<>>
    /\ nfun = 0
    /\ thrown = NoError
    /\ calls = <<>>

\* next() on the generator: it runs up to its next yield
ScanYield ==
    /\ pc = "scan"
    /\ \E r \in {scanTokens(scanner)} :
           /\ r.sig \in {"none", "eof"}
           /\ scanner' = r.sc
           /\ tokens' = tokens \o r.yield
           /\ pc' = IF r.sig = "eof" THEN "scan-eof" ELSE "scan"
    /\ UNCHANGED <<program, repl, thrown, input, op, parser, backEnd>>

\* next() on the generator: it runs to its end and throws
\* LoxError("Syntax error", errors)
ScanThrow ==
    /\ pc = "scan"
    /\ \E r \in {scanTokens(scanner)} :
           /\ r.sig = "LoxError"
           /\ scanner' = r.sc
           /\ thrown' = [sig |-> "LoxError", msg |-> "Syntax error", v |-> r.sc.errors]
    /\ pc' = "scan-thrown"
    /\ UNCHANGED <<program, repl, input, op, tokens, parser, backEnd>>

\* next() after EOF was yielded: the generator returns
ScanReturn ==
    /\ pc = "scan-eof"
    /\ pc' = "scanned"
    /\ UNCHANGED <<program, repl, thrown, input, op, frontEnd, backEnd>>

\* the consumer stops pulling: the generator is never resumed
ScanAbandon ==
    /\ pc \in {"scan", "scan-eof"}
    /\ pc' = "abandoned"
    /\ UNCHANGED <<program, repl, thrown, input, op, frontEnd, backEnd>>

\* run(): parseAst(tokens) on the array the scanner filled
ParseScanned ==
    /\ pc = "scanned"
    /\ input.family = "words"
    /\ pc' = "parse"
    /\ UNCHANGED <<program, repl, thrown, input, op, frontEnd, backEnd>>

\* the stream and the error list of parseTokensStream
Stream == [tokens |-> tokens, index |-> parser.index, errors |-> parser.errors]

\* one pass of the top-level loop in which declaration() returns
ParseDeclaration ==
    /\ pc = "parse"
    /\ ~P_isAtEnd(Stream)
    /\ \E r \in {P_declaration(Stream)} :
           /\ r.sig = "none"
           /\ parser' = [index |-> r.ps.index, errors |-> r.ps.errors,
                         statements |-> Append(parser.statements, r.node)]
    /\ UNCHANGED <<program, repl, pc, thrown, input, op, scanner, tokens, backEnd>>

\* a catch that records the error and does not synchronize
ParseRecover_withoutSynchronize ==
    /\ pc = "parse"
    /\ ~P_isAtEnd(Stream)
    /\ \E r \in {P_declaration(Stream)} :
           /\ r.sig = "ParseError"
           /\ parser' = [parser EXCEPT !.index = r.ps.index,
                                       !.errors = Append(r.ps.errors, r.error)]
    /\ UNCHANGED <<program, repl, pc, thrown, input, op, scanner, tokens, backEnd>>

\* one pass of the top-level loop in which declaration() throws a ParseError:
\* errors.push(error); synchronize()
ParseRecover ==
    /\ pc = "parse"
    /\ ~P_isAtEnd(Stream)
    /\ \E r \in {P_declaration(Stream)} :
           /\ r.sig = "ParseError"
           /\ \E ps \in {synchronize([r.ps EXCEPT !.errors = Append(@, r.error)])} :
                  parser' = [parser EXCEPT !.index = ps.index, !.errors = ps.errors]
    /\ UNCHANGED <<program, repl, pc, thrown, input, op, scanner, tokens, backEnd>>

\* the loop has ended without errors: parseAst returns the statements, which
\* go to resolve
ParseReturn ==
    /\ pc = "parse"
    /\ P_isAtEnd(Stream)
    /\ Len(parser.errors) = 0
    /\ program' = parser.statements
    /\ pc' = "resolve"
    /\ UNCHANGED <<repl, thrown, input, op, frontEnd, backEnd>>

\* the loop has ended with errors: throw new LoxError("Syntax error", errors)
ParseThrow ==
    /\ pc = "parse"
    /\ P_isAtEnd(Stream)
    /\ Len(parser.errors) > 0
    /\ thrown' = [sig |-> "LoxError", msg |-> "Syntax error", v |-> parser.errors]
    /\ pc' = "parse-thrown"
    /\ UNCHANGED <<program, repl, input, op, frontEnd, backEnd>>

\* resolve() returns { locals }; interpret() starts with a fresh global
\* environment (its default `environment = createEnvironment()`).
ResolveAccept ==
    /\ pc = "resolve"
    /\ \E resolver \in {resolve(program)} :
           /\ Len(resolver.errors) = 0
           /\ locals' = resolver.locals
           /\ resolveErrors' = resolver.errors
    /\ pc' = "interpret"
    /\ envs' = <<NewFrame(null, <<>>)>>
    /\ UNCHANGED <<program, repl, index, out, nfun, thrown, calls, input, op, frontEnd>>

\* resolve() throws LoxError("Resolver error", resolver.errors)
ResolveReject ==
    /\ pc = "resolve"
    /\ \E resolver \in {resolve(program)} :
           /\ Len(resolver.errors) > 0
           /\ resolveErrors' = resolver.errors
    /\ pc' = "rejected"
    /\ UNCHANGED <<program, repl, locals, index, envs, out, nfun, thrown, calls, input, op, frontEnd>>

\* executeStmt(statement, context) of interpret's loop at position index
Executed ==
    executeStmt(program[index], [environment |-> 1, locals |-> locals],
                [envs |-> envs, out |-> out, nfun |-> nfun, steps |-> 0,
                 calls |-> calls, now |-> 0])

\* the state after the statement's evaluation r
Effects(r) ==
    /\ envs' = r.st.envs
    /\ nfun' = r.st.nfun
    /\ calls' = r.st.calls
    /\ IF r.sig = "none"
       THEN /\ out' = IF repl /\ r.v # Undef
                      THEN Append(r.st.out, [via |-> "repl", value |-> r.v])
                      ELSE r.st.out
            /\ UNCHANGED thrown
       ELSE /\ out' = r.st.out
            /\ thrown' = [sig |-> r.sig, msg |-> r.msg, v |-> r.v]

Completes(r) == r.sig = "none" /\ Effects(r)
Throws(r) == r.sig # "none" /\ Effects(r)

\* one iteration of interpret's loop that completes
InterpretStatement ==
    /\ pc = "interpret"
    /\ index <= Len(program)
    /\ \E r \in {Executed} : Completes(r)
    /\ index' = index + 1
    /\ UNCHANGED <<program, repl, pc, locals, resolveErrors, input, op, frontEnd>>

\* one iteration of interpret's loop that throws: the exception leaves interpret
InterpretThrow ==
    /\ pc = "interpret"
    /\ index <= Len(program)
    /\ \E r \in {Executed} : Throws(r)
    /\ pc' = "done"
    /\ UNCHANGED <<program, repl, locals, resolveErrors, index, input, op, frontEnd>>

\* interpret's loop ends: interpret returns
InterpretReturn ==
    /\ pc = "interpret"
    /\ index > Len(program)
    /\ pc' = "done"
    /\ UNCHANGED <<program, repl, locals, resolveErrors, index, envs, out, nfun,
                   thrown, calls, input, op, frontEnd>>

\* interpret(statements, { environment, locals }) called again with the global
\* environment of the run that has ended
InterpretAgain ==
    /\ pc = "done"
    /\ input.family = "exits"
    /\ op = NoOp
    /\ program' = NextLine
    /\ locals' = resolve(NextLine).locals
    /\ index' = 1
    /\ thrown' = NoError
    /\ op' = [kind |-> "interpret"]
    /\ pc' = "interpret"
    /\ UNCHANGED <<repl, resolveErrors, envs, out, nfun, calls, input, frontEnd>>

Next ==
    \/ ScanYield
    \/ ScanThrow
    \/ ScanReturn
    \/ ScanAbandon
    \/ ParseScanned
    \/ ParseDeclaration
    \/ ParseRecover
    \/ ParseReturn
    \/ ParseThrow
    \/ ResolveAccept
    \/ ResolveReject
    \/ InterpretStatement
    \/ InterpretThrow
    \/ InterpretReturn
    \/ InterpretAgain

Spec == Init /\ [][Next]_vars

\* parseAst is one synchronous loop: a pass that can be made is made
ParseSpec ==
    Spec /\ WF_vars(ParseDeclaration \/ ParseRecover \/ ParseReturn \/ ParseThrow)

-----------------------------------------------------------------------------
(* The environment on its own (core/environment.ts): createEnvironment,    *)
(* define, get and assign applied in any order to the frames of envs, with *)
(* every name, value and distance a caller can pass.  op is the call last  *)
(* made and thrown what it threw or, for get, returned.                    *)

\* Number of frames the calls may create, the global one included.
MaxFrames == 3

\* the name the calls define and assign, and the names they read
Names == {"a"}
ReadNames == {"a", "clock"}
Values == {NumV(1), NumV(2)}
Distances == {undefined} \cup (0..MaxFrames - 1)

EnvInit ==
    /\ input = [family |-> "environment"]
    /\ pc = "environment"
    /\ envs = <<NewFrame(null, <<>>)>>
    /\ op = NoOp
    /\ thrown = NoError
    /\ scanner = createScanner(<<>>)
    /\ tokens = <<>>
    /\ parser = createParser
    /\ program = <<>>
    /\ repl = FALSE
    /\ locals = EmptyMap
    /\ resolveErrors = <<>>
    /\ index = 1
    /\ out = <<>>
    /\ nfun = 0
    /\ calls = <<>>

Outcome(r) == [sig |-> r.sig, msg |-> r.msg, v |-> r.v]

\* createEnvironment(enclosing)
EnvCreate ==
    /\ pc = "environment"
    /\ Len(envs) < MaxFrames
    /\ \E enclosing \in DOMAIN envs :
           /\ envs' = createEnvironment(enclosing, [envs |-> envs]).envs
           /\ op' = [kind |-> "create", self |-> Len(envs) + 1]
    /\ thrown' = NoError
    /\ UNCHANGED <<program, repl, pc, locals, resolveErrors, index, out, nfun,
                   calls, input, frontEnd>>

\* environment.define(name, value) on frame self
EnvDefine ==
    /\ pc = "environment"
    /\ \E self \in DOMAIN envs, name \in Names, value \in Values :
       \E r \in {define(self, name, value, [envs |-> envs])} :
           /\ envs' = r.st.envs
           /\ thrown' = Outcome(r)
           /\ op' = [kind |-> "define", self |-> self, name |-> name,
                     value |-> value]
    /\ UNCHANGED <<program, repl, pc, locals, resolveErrors, index, out, nfun,
                   calls, input, frontEnd>>

\* environment.get(name, distance) on frame self
EnvGet ==
    /\ pc = "environment"
    /\ \E self \in DOMAIN envs, name \in ReadNames, distance \in Distances :
       \E r \in {get(self, name, distance, [envs |-> envs])} :
           /\ envs' = r.st.envs
           /\ thrown' = Outcome(r)
           /\ op' = [kind |-> "get", self |-> self, name |-> name,
                     distance |-> distance]
    /\ UNCHANGED <<program, repl, pc, locals, resolveErrors, index, out, nfun,
                   calls, input, frontEnd>>

\* environment.assign(name, value, distance) on frame self
EnvAssign ==
    /\ pc = "environment"
    /\ \E self \in DOMAIN envs, name \in Names, value \in Values,
          distance \in Distances :
       \E r \in {assign(self, name, value, distance, [envs |-> envs])} :
           /\ envs' = r.st.envs
           /\ thrown' = Outcome(r)
           /\ op' = [kind |-> "assign", self |-> self, name |-> name,
                     value |-> value, distance |-> distance]
    /\ UNCHANGED <<program, repl, pc, locals, resolveErrors, index, out, nfun,
                   calls, input, frontEnd>>

EnvNext ==
    \/ EnvCreate
    \/ EnvDefine
    \/ EnvGet
    \/ EnvAssign

EnvSpec == EnvInit /\ [][EnvNext]_vars

-----------------------------------------------------------------------------
(* Properties.  Printed is what the print statements wrote, in order; a    *)
(* run is over when pc is "done" (interpret returned or threw) or          *)
(* "rejected" (resolve threw).                                             *)

Range(s) == {s[i] : i \in DOMAIN s}

Printed == SelectSeq(out, LAMBDA o : o.via = "print")
PrintedValues == [i \in 1..Len(Printed) |-> Printed[i].value]

Copies(n, s) == [i \in 1..(n * Len(s)) |-> s[((i - 1) % Len(s)) + 1]]

UndefinedVariable(name) ==
    [sig |-> "RuntimeError", msg |-> "Undefined variable '" \o name \o "'.",
     v |-> Undef]

BreakOutsideLoop == "Can't break outside of a loop."
ReturnFromTopLevel == "Can't return from top-level code."

\* C1: a closure returned from a call of make still reads and assigns make's
\* variable c after make returned, and the closures of two calls of make
\* count independently: a() is v0 + 1, a() again v0 + 2, b() is v0 + 1.
C1_ClosuresCaptureIndependently ==
    (input.family = "closure" /\ pc = "done")
        => /\ thrown = NoError
           /\ PrintedValues = <<NumV(input.v0 + 1), NumV(input.v0 + 2),
                                NumV(input.v0 + 1)>>

\* C2: a call f(a1, .., an) of fun f(p1, .., pn) { print p_which; } prints
\* a_which: every parameter read yields the argument at its position.
C2_ParametersBoundPositionally ==
    (input.family = "params" /\ pc = "done")
        => /\ thrown = NoError
           /\ PrintedValues = <<input.args[input.which]>>

RECURSIVE ShadowPrints(_, _)
\* what level i and the levels inside it print: the enclosing level's value
\* before the declaration, the level's own value after it and again after
\* the inner block has exited
ShadowPrints(vals, i) ==
    (IF i > 0 THEN <<vals[i - 1]>> ELSE <<>>)
    \o <<vals[i]>>
    \o (IF i + 1 \in DOMAIN vals THEN ShadowPrints(vals, i + 1) ELSE <<>>)
    \o <<vals[i]>>

ShadowExpected(vals) == ShadowPrints(vals, 0)

C4_BlockVariableGoneAfterExit ==
    (input.family = "blockexit" /\ pc = "done")
        => /\ thrown = UndefinedVariable("x")
           /\ PrintedValues = <<StrV("after")>>

\* C4 witness: the read after the block, inside an enclosing block, threw.
C4_Witness ==
    /\ input.family = "blockexit" /\ input.reader = "block" /\ pc = "done"
    /\ thrown = UndefinedVariable("x")
    /\ PrintedValues = <<StrV("after")>>

\* one turn of the outer loop: the inner loop prints 1 .. K-1 and leaves at
\* j = K, then the outer body goes on to print "o"
LoopsTurn(K) == [j \in 1..(K - 1) |-> NumV(j)] \o <<StrV("o")>>

\* C5: a break in the inner of two loops ends the inner loop only: the
\* inner loop's print is skipped from j = K on, while the outer body prints
\* "o" and runs all its N turns; a runtime error in the same place is not
\* caught by either loop.
C5_BreakEndsInnermostLoopOnly ==
    /\ (input.family = "loops" /\ input.exit # "error" /\ pc = "done")
          => /\ thrown = NoError
             /\ PrintedValues = Copies(input.N, LoopsTurn(input.K)) \o <<StrV("end")>>
    /\ (input.family = "loops" /\ input.exit = "error" /\ pc = "done")
          => /\ thrown = UndefinedVariable("nope")
             /\ PrintedValues = [j \in 1..(input.K - 1) |-> NumV(j)]

\* C5 witness: two outer turns whose inner loop broke at its second turn.
C5_Witness ==
    /\ input.family = "loops" /\ input.exit = "break" /\ pc = "done"
    /\ input.N = 2 /\ input.K = 2
    /\ PrintedValues = <<NumV(1), StrV("o"), NumV(1), StrV("o"), StrV("end")>>

\* a loop encloses the leaf with no function boundary in between
EnclosedByLoop(wraps) ==
    \E i \in DOMAIN wraps :
        /\ wraps[i] = "while"
        /\ \A j \in DOMAIN wraps : j > i => wraps[j] \notin {"fun", "anon"}

\* a function body encloses the leaf
InsideFunction(wraps) == \E i \in DOMAIN wraps : wraps[i] \in {"fun", "anon"}

\* C6: resolve reports "Can't break outside of a loop." for a break exactly
\* when no loop encloses it within the same function body or top-level code.
C6_BreakReportedExactlyOutsideLoops ==
    (input.family = "nest" /\ input.leaf = "break" /\ pc # "resolve")
        => /\ EnclosedByLoop(input.wraps) => pc # "rejected"
           /\ ~EnclosedByLoop(input.wraps)
                 => pc = "rejected" /\ resolveErrors = <<BreakOutsideLoop>>

\* C6 witness: a break in a function declared inside a loop body is reported.
C6_Witness ==
    /\ input.family = "nest" /\ input.leaf = "break"
    /\ input.wraps = <<"while", "fun">>
    /\ pc = "rejected" /\ resolveErrors = <<BreakOutsideLoop>>

\* C7: resolve reports "Can't return from top-level code." for a return
\* exactly when no function body encloses it, whatever blocks, ifs and loops
\* enclose it.
C7_ReturnReportedExactlyAtTopLevel ==
    (input.family = "nest" /\ input.leaf = "return" /\ pc # "resolve")
        => /\ InsideFunction(input.wraps) => pc # "rejected"
           /\ ~InsideFunction(input.wraps)
                 => pc = "rejected" /\ resolveErrors = <<ReturnFromTopLevel>>

\* C8: interpret of a program resolve accepted never ends by throwing a
\* break signal or a return signal.
C8_NoSignalLeavesInterpret ==
    pc = "done" => thrown.sig \notin {"BreakError", "ReturnError"}

\* what print f() and the statements around it print for a body that
\* returns (or not) between its prints of "b" and "c"
ReturnExpected(in) ==
    IF in.value = "absent"
    THEN <<StrV("a"), StrV("b"), StrV("c"), StrV("d"), Nil, StrV("end")>>
    ELSE <<StrV("a"), StrV("b"), ReturnedValue(in), StrV("end")>>

\* C9: a return inside blocks, ifs and loops of a function body ends the
\* call at once: "c" and "d" are not printed, the call yields the returned
\* value (nil for a bare return), and a body without a return yields nil.
C9_ReturnEndsCallAtAnyDepth ==
    /\ input.family = "return" =>
          /\ Len(PrintedValues) <= Len(ReturnExpected(input))
          /\ PrintedValues = SubSeq(ReturnExpected(input), 1, Len(PrintedValues))
    /\ (input.family = "return" /\ pc = "done") =>
          /\ thrown = NoError
          /\ PrintedValues = ReturnExpected(input)

\* C9 witness: a return of 7 inside a loop inside a block inside a loop ended
\* the call, and print f() printed 7.
C9_Witness ==
    /\ input.family = "return" /\ pc = "done"
    /\ input.wraps = <<"while", "block", "while">> /\ input.value = "number"
    /\ PrintedValues = <<StrV("a"), StrV("b"), NumV(7), StrV("end")>>

\* the left operand decides: `or` with a truthy left, `and` with a falsy one
\* (nil and false are the falsy values)
ShortCircuits(in) ==
    IF in.operator = "OR" THEN in.a \notin {Nil, BoolV(FALSE)}
    ELSE in.a \in {Nil, BoolV(FALSE)}

\* C10: `a or b` and `a and b` yield a, uncoerced, without evaluating b when
\* a decides (x is not assigned, g is not called); else they evaluate b and
\* yield b's value.
C10_LogicalShortCircuits ==
    (input.family = "logic" /\ pc = "done")
        => /\ thrown = NoError
           /\ PrintedValues =
                 IF ShortCircuits(input) THEN <<input.a, StrV("init")>>
                 ELSE IF input.right = "assign" THEN <<input.b, input.b>>
                 ELSE <<StrV("g"), input.b, StrV("init")>>
           /\ ShortCircuits(input) => calls = <<>>

\* C10 witness: `0 or g()` printed 0 and did not call g.
C10_Witness ==
    /\ input.family = "logic" /\ pc = "done"
    /\ input.operator = "OR" /\ input.a = NumV(0) /\ input.right = "call"
    /\ PrintedValues = <<NumV(0), StrV("init")>> /\ calls = <<>>


\* the string conversion of a value that is no function
LoxString(v) ==
    CASE v = Nil -> "nil"
      [] v.k = "bool" -> IF v.v THEN "true" ELSE "false"
      [] v.k = "num" -> ToString(v.v)
      [] v.k = "str" -> v.v

PlusOperandsError == "Operands of + must be numbers or strings"

\* C11: print a + b prints the sum when a and b are numbers; when a or b is
\* a string it prints the concatenation of the string conversions of a and b,
\* whatever the other operand is (number, string, boolean, nil, function);
\* in every other case it throws "Operands of + must be numbers or strings"
\* and prints nothing.
C11_PlusAddsOrConcatenates ==
    (input.family = "binary" /\ input.operator = "PLUS" /\ pc = "done") =>
        IF input.a.k = "num" /\ input.b.k = "num"
        THEN /\ thrown = NoError
             /\ PrintedValues = <<NumV(input.a.v + input.b.v)>>
        ELSE IF "str" \in {input.a.k, input.b.k}
        THEN /\ thrown = NoError
             /\ Len(PrintedValues) = 1
             /\ PrintedValues[1].k = "str"
             /\ Callable \notin {input.a, input.b} =>
                   PrintedValues[1] = StrV(LoxString(input.a) \o LoxString(input.b))
        ELSE /\ thrown.sig = "RuntimeError"
             /\ thrown.msg = PlusOperandsError
             /\ Printed = <<>>

DivisionByZero == "Division by zero"

\* print a / b or print a % b, with numbers a and b
Divides ==
    /\ input.family = "binary" /\ input.operator \in {"SLASH", "PERCENT"}
    /\ input.a.k = "num" /\ input.b.k = "num"

\* C12: a / 0 and a % 0 throw the runtime error "Division by zero" and print
\* nothing; with a divisor that is not zero that error is never thrown, and
\* what is printed is a number.
C12_ZeroDivisorThrows ==
    /\ (Divides /\ pc = "done" /\ input.b.v = 0) =>
          /\ thrown.sig = "RuntimeError"
          /\ thrown.msg = DivisionByZero
          /\ Printed = <<>>
    /\ (Divides /\ input.b.v # 0) =>
          /\ thrown.msg # DivisionByZero
          /\ \A i \in 1..Len(PrintedValues) :
                PrintedValues[i].k = "num" /\ PrintedValues[i].v \in Int

\* C12 witness: print 0 % 0 ended with "Division by zero", nothing printed.
C12_Witness ==
    /\ Divides /\ pc = "done" /\ input.b.v = 0
    /\ input.operator = "PERCENT" /\ input.a.v = 0
    /\ thrown.msg = DivisionByZero /\ Printed = <<>>

NotCallable == "Can only call functions and classes."
ArityMismatch(n, m) ==
    "Expected " \o ToString(n) \o " arguments but got " \o ToString(m) \o "."

\* what c()(a1(), .., am()) prints before the callee is checked
CallCheckEvaluated(in) == <<StrV("c")>> \o [i \in 1..in.args |-> StrV(ToString(i))]

CallCheckPasses(in) == in.callee = "function" /\ in.arity = in.args

CallCheckExpected(in) ==
    CallCheckEvaluated(in)
    \o (IF CallCheckPasses(in) THEN <<StrV("body"), StrV("end")>> ELSE <<>>)

\* C13: c()(a1(), .., am()) evaluates c() first, then a1() .. am() from left
\* to right, and only then checks the callee: a callee that is no function
\* throws "Can only call functions and classes.", a function of another
\* arity "Expected N arguments but got M.", both without entering the body;
\* the body runs when both checks pass.
C13_CallChecksAfterOperands ==
    /\ input.family = "callcheck" =>
          /\ Len(PrintedValues) <= Len(CallCheckExpected(input))
          /\ PrintedValues = SubSeq(CallCheckExpected(input), 1, Len(PrintedValues))
    /\ (input.family = "callcheck" /\ pc = "done") =>
          /\ PrintedValues = CallCheckExpected(input)
          /\ thrown = IF CallCheckPasses(input) THEN NoError
                      ELSE [sig |-> "RuntimeError", v |-> Undef,
                            msg |-> IF input.callee # "function" THEN NotCallable
                                    ELSE ArityMismatch(input.arity, input.args)]

\* C13 witness: c()(a1(), a2()) with c returning a string printed "c", "1",
\* "2" and then threw that the callee is no function.
C13_Witness ==
    /\ input.family = "callcheck" /\ pc = "done"
    /\ input.callee = "string" /\ input.args = 2
    /\ PrintedValues = <<StrV("c"), StrV("1"), StrV("2")>>
    /\ thrown.msg = NotCallable

FailFastMessage(in) ==
    CASE in.error = "unary" -> "Operand of - must be a number"
      [] in.error = "undefined" -> "Undefined variable 'nope'."
      [] in.error = "call" -> NotCallable

\* the places where x = 5 runs before the error
AssignsBefore(in) == in.place \in {"block", "if", "while", "function"}

Globals == envs[1].values

\* C14: after var x = 1; x = 2; print x; a runtime error at any place (top
\* level, block, if, loop, function body, left operand, first argument) ends
\* the run with that one error: nothing after it is evaluated (no print, no
\* definition of y, no later assignment of x), and what was done before it
\* stays (x is 2, or 5 where x = 5 precedes the error; 2 was printed).
C14_FailFast ==
    /\ input.family = "failfast" =>
          /\ Len(PrintedValues) <= 1
          /\ pc \in {"interpret", "done"} => ~Has(Globals, "y")
    /\ (input.family = "failfast" /\ pc = "done") =>
          /\ thrown = [sig |-> "RuntimeError", msg |-> FailFastMessage(input),
                       v |-> Undef]
          /\ PrintedValues = <<NumV(2)>>
          /\ Has(Globals, "x")
          /\ Globals["x"] = NumV(IF AssignsBefore(input) THEN 5 ELSE 2)

\* C14 witness: the error of -nil inside a loop body after x = 5 ended the
\* run; x is 5, only 2 was printed.
C14_Witness ==
    /\ input.family = "failfast" /\ pc = "done"
    /\ input.place = "while" /\ input.error = "unary"
    /\ thrown.sig = "RuntimeError"
    /\ Globals["x"] = NumV(5)
    /\ PrintedValues = <<NumV(2)>>

AlreadyDeclared(name) ==
    "Variable with name '" \o name \o "' already declared in this scope."

\* the violations of a scope of RedeclareInputs, in source order
Redeclared(in) ==
    IF in.kind = "two" THEN <<AlreadyDeclared("a"), AlreadyDeclared("b")>>
    ELSE <<AlreadyDeclared("a")>>

\* C20: resolve throws for a block or function scope that declares a name
\* twice (var and var, a repeated parameter, a parameter and a var, a
\* function and a var in either order, two functions), and the thrown error
\* holds one "already declared in this scope" message per violation.
C20_RedeclarationRejected ==
    (input.family = "redeclare" /\ pc # "resolve") =>
        /\ pc = "rejected"
        /\ resolveErrors = Redeclared(input)


\* the character a piece of a string body denotes
Denotes(piece) ==
    IF Len(piece) = 1 THEN piece[1]
    ELSE CASE piece[2] = "n" -> "\n" [] piece[2] = "t" -> "\t"
           [] piece[2] = "r" -> "\r" [] piece[2] = "\"" -> "\""
           [] piece[2] = "\\" -> "\\"

ExpectedString(in) ==
    token("STRING", Text(StringLiteral(in)),
          StrV(Text([i \in 1..Len(in.body) |-> Denotes(in.body[i])])), 1)

TailTokens(tail) ==
    CASE tail = <<>> -> <<>>
      [] tail = <<";">> -> <<token("SEMICOLON", ";", Nil, 1)>>
      [] OTHER -> <<token("STRING", "\"b\"", StrV("b"), 1)>>

StringTokens(in) == <<ExpectedString(in)>> \o TailTokens(in.tail) \o <<EOFToken(1)>>

IsPrefix(s, t) == Len(s) <= Len(t) /\ s = SubSeq(t, 1, Len(s))

\* C19: a string literal whose body is made of ordinary characters and the
\* escapes \n, \t, \r, \" and \\ at any position, also directly before the
\* closing quote, is scanned as one STRING token that ends at the closing
\* quote and carries the body with every escape replaced by its character;
\* no scan error is recorded, and what follows the literal is scanned as
\* usual.
C19_EscapedStringIsOneToken ==
    input.family = "string" =>
        /\ scanner.errors = <<>>
        /\ pc # "scan-thrown"
        /\ IsPrefix(tokens, StringTokens(input))
        /\ pc = "scanned" => tokens = StringTokens(input)

\* the line of segment i: one more for every newline before it
LineAt(segments, i) == 1 + Cardinality({j \in 1..(i - 1) : segments[j] = "newline"})

SegmentTokens(kind, line) ==
    CASE kind = "number" -> <<token("NUMBER", "12", NumV(12), line)>>
      [] kind = "identifier" -> <<token("IDENTIFIER", "ab", Nil, line)>>
      [] kind = "semicolon" -> <<token("SEMICOLON", ";", Nil, line)>>
      [] kind = "escape" -> <<token("STRING", "\"a\\q\"", StrV("aq"), line)>>
      [] OTHER -> <<>>

SegmentErrors(kind, line) ==
    CASE kind = "unexpected" -> <<syntaxError(line, "Unexpected character: '@'")>>
      [] kind = "quote" -> <<syntaxError(line, "Single quotes are not supported.")>>
      [] kind = "escape" -> <<syntaxError(line, "Invalid escape sequence: \\q")>>
      [] OTHER -> <<>>

LastLine(in) == LineAt(in.segments, Len(in.segments) + 1)

ExpectedErrors(in) ==
    Flatten([i \in 1..Len(in.segments) |->
                SegmentErrors(in.segments[i], LineAt(in.segments, i))])
    \o (IF in.open THEN <<syntaxError(LastLine(in), "Unterminated string.")>> ELSE <<>>)

ExpectedTokens(in) ==
    Flatten([i \in 1..Len(in.segments) |->
                SegmentTokens(in.segments[i], LineAt(in.segments, i))])
    \o (IF ExpectedErrors(in) = <<>> THEN <<EOFToken(LastLine(in))>> ELSE <<>>)

\* C18: a scan error does not end the scan where it occurs: the tokens of
\* the valid segments are yielded in order whatever errors lie between them,
\* every error is recorded, and the aggregate error is thrown only when the
\* whole source has been scanned, with all of them; a consumer that stops
\* pulling before that sees no error; without errors the scan ends with EOF.
C18_ScanErrorsRaisedAtEnd ==
    input.family = "scan" =>
        /\ thrown.sig # "none" => pc = "scan-thrown"
        /\ IsPrefix(tokens, ExpectedTokens(input))
        /\ IsPrefix(scanner.errors, ExpectedErrors(input))
        /\ pc = "scan-thrown" =>
              /\ tokens = ExpectedTokens(input)
              /\ scanner.current = Len(scanner.source)
              /\ thrown.sig = "LoxError" /\ thrown.msg = "Syntax error"
              /\ thrown.v = ExpectedErrors(input)
              /\ ExpectedErrors(input) # <<>>
        /\ pc \in {"scan-eof", "scanned"} =>
              /\ ExpectedErrors(input) = <<>>
              /\ tokens = ExpectedTokens(input)
        /\ pc = "abandoned" => thrown.sig = "none"

\* C18 witness: @ 12 "x  was scanned to its end: NUMBER 12 was yielded after
\* the error of @, and both errors were thrown together.
C18_Witness ==
    /\ input.family = "scan" /\ pc = "scan-thrown"
    /\ input.segments = <<"unexpected", "number">> /\ input.open
    /\ tokens = <<token("NUMBER", "12", NumV(12), 1)>>
    /\ Len(thrown.v) = 2


\* the rung of a binary operator on the ladder
Rung(type) ==
    CASE type \in {"BANG_EQUAL", "EQUAL_EQUAL"} -> 1
      [] type \in {"GREATER", "GREATER_EQUAL", "LESS", "LESS_EQUAL"} -> 2
      [] type \in {"MINUS", "PLUS"} -> 3
      [] type \in {"SLASH", "STAR", "PERCENT"} -> 4

RECURSIVE Tree(_, _)
\* the tree of operands joined by ops: the root is the last operator of the
\* lowest rung, so that lower rungs bind later and a rung folds to the left
Tree(operands, ops) ==
    IF ops = <<>> THEN operands[1]
    ELSE LET lowest == CHOOSE r \in 1..4 :
                          /\ \E k \in DOMAIN ops : Rung(ops[k]) = r
                          /\ \A k \in DOMAIN ops : Rung(ops[k]) >= r
             root == CHOOSE k \in DOMAIN ops :
                        /\ Rung(ops[k]) = lowest
                        /\ \A j \in DOMAIN ops : Rung(ops[j]) = lowest => j <= k
         IN  binary(Tree(SubSeq(operands, 1, root), SubSeq(ops, 1, root - 1)),
                    ops[root],
                    Tree(SubSeq(operands, root + 1, Len(operands)),
                         SubSeq(ops, root + 1, Len(ops))))

Leaf(in, i) == IF Negated(in, i) THEN unary("MINUS", num(i)) ELSE num(i)

\* the expression of ExprTokens: a group is one operand
ExprTree(in) ==
    LET n == Len(in.ops) + 1
        leaves == [i \in 1..n |-> Leaf(in, i)]
        g == GroupStart(in)
    IN  IF in.group
        THEN Tree(SubSeq(leaves, 1, g - 1)
                  \o <<grouping(Tree(SubSeq(leaves, g, n), SubSeq(in.ops, g, n - 1)))>>,
                  SubSeq(in.ops, 1, g - 1))
        ELSE Tree(leaves, in.ops)

ExampleTree(which) ==
    IF which = 1
    THEN binary(binary(binary(binary(num(1), "EQUAL_EQUAL", num(7)),
                              "EQUAL_EQUAL", num(6)),
                       "EQUAL_EQUAL", num(4)),
                "BANG_EQUAL", num(2))
    ELSE binary(binary(num(1), "PLUS",
                       binary(num(1), "STAR",
                              grouping(binary(num(2), "MINUS", num(1))))),
                "BANG_EQUAL", num(3))

\* parseAst has returned
ParseReturned == pc \notin {"parse", "parse-thrown"}

\* C15: the tree of an expression of literals, groupings, unary and binary
\* operators follows the ladder equality < comparison < term < factor <
\* unary < primary, one rung folding to the left: 1 == 7 == 6 == 4 != 2 is
\* (!= (== (== (== 1 7) 6) 4) 2), 1 + 1 * (2 - 1) != 3 is
\* (!= (+ 1 (* 1 (group (- 2 1)))) 3), and every 1 op 2 op 3 with a minus
\* or a group has the tree of its lowest, last operator at the root.
C15_PrecedenceLadder ==
    /\ input.family \in {"expr", "example"} => pc # "parse-thrown"
    /\ (input.family = "expr" /\ ParseReturned) => program = <<expr(ExprTree(input))>>
    /\ (input.family = "example" /\ ParseReturned) =>
          program = <<expr(ExampleTree(input.which))>>

\* C15 witness: 1 + 1 * (2 - 1) != 3; has been parsed to its tree.
C15_Witness ==
    /\ input.family = "example" /\ input.which = 2 /\ pc = "resolve"
    /\ program[1].expression.operator = "BANG_EQUAL"
    /\ program[1].expression.left.right.operator = "STAR"
    /\ program[1].expression.left.right.right.type = "grouping"


\* the statement of a piece without error
PieceStatement(kind) ==
    CASE kind = "print" -> print(num(1))
      [] kind = "var" -> varDecl("a", NoNode)
      [] kind = "block" -> block(<<print(num(2))>>)
      [] kind = "expr" -> expr(num(3))

\* the error of a piece whose error is followed by the piece's semicolon
PieceError(kind) ==
    CASE kind = "noexpr" -> parseError(T("SEMICOLON"), "Expect expression.")
      [] kind = "nosemi" -> parseError(T("PRINT"), "Expect ';' after value.")
      [] kind = "noname" -> parseError(T("SEMICOLON"), "Expect variable name.")
      [] kind = "paren" -> parseError(T("SEMICOLON"), "Expect ')' after expression.")

Chosen(pieces, S) == SelectSeq(pieces, LAMBDA kind : kind \in S)

GoodStatements(pieces) ==
    LET good == Chosen(pieces, GoodPieces)
    IN  [i \in 1..Len(good) |-> PieceStatement(good[i])]

SimpleErrors(pieces) ==
    LET bad == Chosen(pieces, SimpleBadPieces)
    IN  [i \in 1..Len(bad) |-> PieceError(bad[i])]

\* the stream at position n is at a statement boundary: at the end, just
\* past a semicolon, or in front of a word that starts a statement
Boundary(n) ==
    \/ tokens[n + 1].type = "EOF"
    \/ n > 0 /\ tokens[n].type = "SEMICOLON"
    \/ tokens[n + 1].type \in SyncTypes

\* in the results of a parse: no error was recorded exactly if the
\* statements are returned; the errors are thrown together, at the end, and
\* where every error is followed by its piece's semicolon each piece with an
\* error has its error in the list, the pieces without error their statements
RecoverResult ==
    input.family = "recover" =>
        /\ thrown.sig # "none" => pc = "parse-thrown"
        /\ pc = "parse-thrown" =>
              /\ thrown.sig = "LoxError" /\ thrown.msg = "Syntax error"
              /\ thrown.v = parser.errors
              /\ P_isAtEnd(Stream)
              /\ Chosen(input.pieces, BadPieces) # <<>>
              /\ Len(parser.errors) >= 1
              /\ Chosen(input.pieces, BadPieces \ SimpleBadPieces) = <<>> =>
                    /\ parser.errors = SimpleErrors(input.pieces)
                    /\ parser.statements = GoodStatements(input.pieces)
        /\ ParseReturned =>
              /\ Chosen(input.pieces, BadPieces) = <<>>
              /\ parser.errors = <<>>
              /\ program = GoodStatements(input.pieces)

\* in a step that recovers from a parse error at position e: the error is
\* recorded, the token at e and the tokens after it are discarded up to the
\* first boundary, no further, and no statement is added
RecoverStep ==
    (pc = "parse" /\ parser' # parser /\ parser'.statements = parser.statements) =>
        LET thrownAt == P_declaration(Stream)
            e == thrownAt.ps.index
            n == parser'.index
        IN  /\ thrownAt.sig = "ParseError"
            /\ parser'.errors = Append(thrownAt.ps.errors, thrownAt.error)
            /\ IF tokens[e + 1].type = "EOF" THEN n = e ELSE n > e
            /\ Boundary(n)
            /\ \A k \in (e + 1)..(n - 1) : ~Boundary(k)
            /\ pc' = "parse"

\* C16: after a parse error the parser records it, discards tokens until it
\* is at the end, just past a semicolon or in front of class, fun, var, for,
\* if, while, print or return, and goes on parsing statements from there;
\* at the end all recorded errors are thrown together, and the statement
\* list is returned only when no error was recorded.
C16_ParserRecovers == []RecoverResult /\ [][RecoverStep]_vars

\* C16 witness: print 1 print 2; var ;  was parsed to its end and both
\* errors were thrown together.
C16_Witness ==
    /\ input.family = "recover" /\ pc = "parse-thrown"
    /\ input.pieces = <<"nosemi", "noname">>
    /\ Len(thrown.v) = 2
    /\ thrown.v[2].message = "Expect variable name."


RECURSIVE ForRuns(_, _, _)
\* { init; while (cond) { body; inc; } } by hand, from the value i of the
\* loop variable on: what the body prints and the variable's last value
ForRuns(in, i, printed) ==
    IF in.cond /\ ~(i < in.n) THEN [i |-> i, printed |-> printed]
    ELSE LET inBody == IF in.inc THEN i ELSE i + 1
         IN  IF ~in.cond /\ inBody >= in.n
             THEN [i |-> inBody, printed |-> Append(printed, NumV(i))]
             ELSE ForRuns(in, IF in.inc THEN inBody + 1 ELSE inBody,
                          Append(printed, NumV(i)))

\* print i after the loop: the loop's variable where the initializer assigns
\* it or there is none, the outer variable where the initializer declares
\* its own, and no variable at all where only the initializer declares one
ForExpected(in) ==
    LET loop == ForRuns(in, 0, <<>>)
    IN  CASE in.init \in {"none", "assign"} -> loop.printed \o <<NumV(loop.i)>>
          [] in.init = "shadow" -> loop.printed \o <<NumV(9)>>
          [] in.init = "var" -> loop.printed

\* the statement a for statement was parsed to
ForStatement == program[IF input.init = "var" THEN 1 ELSE 2]
ForLoop == IF input.init = "none" THEN ForStatement ELSE ForStatement.statements[2]

\* C17: for (init; cond; inc) body is parsed to { init; while (cond) { body;
\* inc; } }, without the outer block when there is no initializer, with the
\* condition true when there is none; it runs the initializer once, tests
\* the condition before every pass and the increment after every completed
\* body (not after a break), and a variable the initializer declares is gone
\* after the loop.
C17_ForIsWhile ==
    /\ input.family = "for" =>
          /\ pc \notin {"parse-thrown", "rejected"}
          /\ IsPrefix(PrintedValues, ForExpected(input))
    /\ (input.family = "for" /\ ParseReturned) =>
          /\ (input.init = "none") = (ForStatement.type = "whileStmt")
          /\ input.init # "none" =>
                /\ ForStatement.type = "block" /\ Len(ForStatement.statements) = 2
                /\ ForStatement.statements[1].type =
                      (IF input.init = "assign" THEN "exprStmt" ELSE "varDecl")
          /\ ForLoop.type = "whileStmt"
          /\ ~input.cond => ForLoop.condition = literal(BoolV(TRUE))
          /\ input.cond => ForLoop.condition.operator = "LESS"
          /\ IF input.inc
             THEN /\ Len(ForLoop.body.statements) = 2
                  /\ ForLoop.body.statements[1].type = "block"
                  /\ ForLoop.body.statements[2].type = "exprStmt"
                  /\ ForLoop.body.statements[2].expression.type = "assignment"
             ELSE ForLoop.body.statements[1].type = "printStmt"
    /\ (input.family = "for" /\ pc = "done") =>
          /\ PrintedValues = ForExpected(input)
          /\ thrown = IF input.init = "var" THEN UndefinedVariable("i") ELSE NoError

\* C17 witness: for (var i = 0; i < 2; i = i + 1) { print i; } print i;
\* printed 0 and 1 and then failed to read i.
C17_Witness ==
    /\ input.family = "for" /\ pc = "done"
    /\ input.init = "var" /\ input.cond /\ input.inc /\ input.n = 2
    /\ PrintedValues = <<NumV(0), NumV(1)>>
    /\ thrown = UndefinedVariable("i")

-----------------------------------------------------------------------------
(* The resolver's variable states and its locals map.                      *)

OwnInitializer == "Can't read local variable in its own initializer."

\* the initializer of the declaration of SelfInitInputs reads the declared name
ReadsItself(in) == in.init \in {"self", "grouped", "sum"}

\* C21: in a block or function scope, resolve reports a declaration whose
\* initializer reads the declared name with "Can't read local variable in its
\* own initializer." and rejects the program; a declaration whose initializer
\* does not read it is accepted, and a read of the name after the declaration
\* in the same scope is never reported.
C21_OwnInitializerReported ==
    (input.family = "selfinit" /\ pc # "resolve") =>
        /\ resolveErrors = IF ReadsItself(input) THEN <<OwnInitializer>> ELSE <<>>
        /\ (pc = "rejected") = ReadsItself(input)

C21_Witness ==
    /\ input.family = "selfinit" /\ input.init = "self" /\ input.later
    /\ input.scope = "function"
    /\ pc = "rejected"
    /\ resolveErrors = <<OwnInitializer>>

\* the levels of an input of DistanceInputs whose scope declares x (the top
\* level, 0, is no scope of the resolver)
DeclaringScopes(in) == {l \in 1..Len(in.wraps) : in.decls[l] # "none"}

Max(S) == CHOOSE m \in S : \A k \in S : k <= m

\* the calls of the functions of an input that are made inside a scope
CallsInScope(in) == {l \in 2..Len(in.wraps) : in.wraps[l] = "function"}

\* the locals map of an input of DistanceInputs: the reference (node 1) at the
\* number of scopes up to the innermost declaring one, the callee of each call
\* (node 100 + l) at 0, its function being declared in the scope of the call
DistanceLocals(in) ==
    [id \in (IF DeclaringScopes(in) = {} THEN {} ELSE {1})
            \cup {100 + l : l \in CallsInScope(in)} |->
        IF id = 1 THEN Len(in.wraps) - Max(DeclaringScopes(in)) ELSE 0]

\* C22: after resolve accepts a program, locals holds for every Variable and
\* Assignment node whose name an enclosing block or function scope declares
\* the number of scopes between the node and the innermost such scope (0 for
\* the node's own scope), and holds no entry for a node whose name no scope
\* declares.
C22_LocalsHoldDistances ==
    (input.family = "distance" /\ pc # "resolve") =>
        /\ pc # "rejected"
        /\ locals = DistanceLocals(input)

C22_Witness ==
    /\ input.family = "distance" /\ pc = "interpret"
    /\ Len(input.wraps) = 3 /\ input.wraps[3] = "function"
    /\ input.decls[1] = "var" /\ input.decls[2] = "none" /\ input.decls[3] = "none"
    /\ input.ref = "assign"
    /\ locals = [id \in {1, 103} |-> IF id = 1 THEN 2 ELSE 0]

-----------------------------------------------------------------------------
(* Environment operations, over EnvSpec.                                   *)

IsGlobalFrame(self) == envs[self].enclosing = null

AlreadyDeclaredVariable(name) ==
    [sig |-> "RuntimeError",
     msg |-> "Variable '" \o name \o "' has already been declared.",
     v |-> Undef]

Binds(values, name, value) ==
    [n \in DOMAIN values \cup {name} |-> IF n = name THEN value ELSE values[n]]

\* what a define step does to the frame it is called on
DefineStep ==
    op'.kind = "define" =>
        IF IsGlobalFrame(op'.self) \/ op'.name \notin DOMAIN envs[op'.self].values
        THEN /\ thrown'.sig = "none"
             /\ envs' = [envs EXCEPT ![op'.self].values =
                                         Binds(@, op'.name, op'.value)]
        ELSE /\ thrown' = AlreadyDeclaredVariable(op'.name)
             /\ envs' = envs

\* a frame gains a name only by a define called on that frame
BoundByDefine ==
    \A f \in DOMAIN envs :
        \A n \in DOMAIN envs'[f].values \ DOMAIN envs[f].values :
            op'.kind = "define" /\ op'.self = f /\ op'.name = n

\* C23: define on the global frame always succeeds and overwrites an existing
\* binding; define on a non-global frame that already holds the name raises
\* "Variable '<name>' has already been declared." and leaves every binding
\* unchanged; names enter a frame only through define, so every name of a
\* non-global frame has been defined there exactly once.
C23_DefineOncePerFrame == [][DefineStep /\ BoundByDefine]_vars

C23_Witness ==
    /\ pc = "environment"
    /\ op.kind = "define" /\ ~IsGlobalFrame(op.self)
    /\ thrown = AlreadyDeclaredVariable("a")
    /\ op.value = NumV(2) /\ envs[op.self].values["a"] = NumV(1)
    /\ "a" \in DOMAIN envs[1].values /\ envs[1].values["a"] = NumV(2)

RECURSIVE Up(_, _)
\* the frame d links above frame self, null past the end of the chain
Up(self, d) ==
    IF self = null \/ d = 0 THEN self ELSE Up(envs[self].enclosing, d - 1)

RECURSIVE Root(_)
Root(self) == IF envs[self].enclosing = null THEN self ELSE Root(envs[self].enclosing)

\* the frame a get or assign on frame self with this distance is about
Designated(self, distance) ==
    IF distance = undefined THEN Root(self) ELSE Up(self, distance)

\* a get or assign step whose designated frame exists reads or writes that
\* frame and no other
DesignatedStep ==
    (op'.kind \in {"get", "assign"}
        /\ Designated(op'.self, op'.distance) # null) =>
        LET target == Designated(op'.self, op'.distance)
            held == op'.name \in DOMAIN envs[target].values
        IN  /\ \A f \in DOMAIN envs : f # target => envs'[f] = envs[f]
            /\ (thrown'.sig = "none") = held
            /\ op'.kind = "get" =>
                   /\ envs' = envs
                   /\ held => thrown'.v = envs[target].values[op'.name]
            /\ (op'.kind = "assign" /\ held) =>
                   envs' = [envs EXCEPT ![target].values =
                                           Binds(@, op'.name, op'.value)]

\* C24: get and assign with a distance d read or write only the frame exactly
\* d links above the frame they are called on (d = 0: that frame itself) and
\* never another frame when the name is absent there; without a distance they
\* read or write only the global frame; assign changes no binding of any
\* other frame.
C24_DesignatedFrameOnly == [][DesignatedStep]_vars

C24_Witness ==
    /\ pc = "environment"
    /\ Len(envs) = 3 /\ envs[3].enclosing = 2 /\ envs[2].enclosing = 1
    /\ op.kind = "assign" /\ op.self = 3 /\ op.distance = 1 /\ op.value = NumV(2)
    /\ thrown.sig = "none"
    /\ \A f \in 1..3 : "a" \in DOMAIN envs[f].values
    /\ envs[1].values["a"] = NumV(1)
    /\ envs[2].values["a"] = NumV(2)
    /\ envs[3].values["a"] = NumV(1)

\* a get or assign step whose designated frame lacks the name
AbsentStep ==
    (op'.kind \in {"get", "assign"}
        /\ Designated(op'.self, op'.distance) # null
        /\ op'.name \notin DOMAIN envs[Designated(op'.self, op'.distance)].values) =>
        /\ thrown' = UndefinedVariable(op'.name)
        /\ envs' = envs

\* C25: reading or assigning a name the designated frame does not hold raises
\* "Undefined variable '<name>'."; the failed assign creates no binding and
\* leaves every frame unchanged, so a later read of the name fails the same
\* way.
C25_AbsentNameRaises == [][AbsentStep]_vars

C25_Witness ==
    /\ pc = "environment"
    /\ op.kind = "assign" /\ op.self = 2 /\ op.distance = 0
    /\ thrown = UndefinedVariable("a")
    /\ Len(envs) >= 2 /\ "a" \notin DOMAIN envs[2].values
    /\ "a" \in DOMAIN envs[1].values

-----------------------------------------------------------------------------
(* Signals and the handlers that test for them.                            *)

IsSignal(error) == error.sig \in {"BreakError", "ReturnError"}

\* C26: break and return signals are disjoint from runtime errors and from
\* each other: the runner's test for a runtime error (exit code 70) matches no
\* break or return signal that leaves interpret, a loop's handler lets a
\* return signal through, and a call's handler lets a break signal through.
C26_SignalsDisjoint ==
    (input.family = "direct" /\ pc = "done") =>
        /\ IsSignal(thrown) => runFile(thrown) # 70
        /\ input.which = "return in loop" => thrown.sig = "ReturnError"
        /\ input.which = "break in call" => thrown.sig = "BreakError"

\* the handlers of the loop and of the call match their own signal only
HandlersKeepApart ==
    (input.family = "direct" /\ pc = "done") =>
        /\ input.which = "return in loop" => thrown.sig = "ReturnError"
        /\ input.which = "break in call" => thrown.sig = "BreakError"
        /\ input.which = "break in call in loop" =>
               thrown.sig = "none" /\ PrintedValues = <<StrV("after")>>
        /\ input.which = "error" => runFile(thrown) = 70

-----------------------------------------------------------------------------
(* Keywords.                                                               *)

\* the token kind of a word of the language
KeywordKind(text) ==
    CASE text = "and" -> "AND" [] text = "class" -> "CLASS"
      [] text = "else" -> "ELSE" [] text = "false" -> "FALSE"
      [] text = "fun" -> "FUN" [] text = "for" -> "FOR" [] text = "if" -> "IF"
      [] text = "nil" -> "NIL" [] text = "or" -> "OR" [] text = "print" -> "PRINT"
      [] text = "return" -> "RETURN" [] text = "super" -> "SUPER"
      [] text = "this" -> "THIS" [] text = "true" -> "TRUE" [] text = "var" -> "VAR"
      [] text = "while" -> "WHILE" [] text = "break" -> "BREAK"
      [] OTHER -> "IDENTIFIER"

\* C27: the scanner yields the keyword token kind for each word of the keyword
\* table, `break` included, and IDENTIFIER for every other identifier; the
\* statement `break;` scanned from source is parsed as a break statement.
C27_KeywordsScanned ==
    (input.family = "words" /\ Len(tokens) >= 1) =>
        /\ tokens[1].type = KeywordKind(Text(input.word))
        /\ tokens[1].lexeme = Text(input.word)
        /\ (Text(input.word) = "break" /\ pc = "resolve") =>
               program = <<breakStmt>>

\* every word but `break` gets its kind
KeywordsButBreak ==
    (input.family = "words" /\ Len(tokens) >= 1
        /\ Text(input.word) # "break") =>
        /\ tokens[1].type = KeywordKind(Text(input.word))
        /\ tokens[1].lexeme = Text(input.word)

-----------------------------------------------------------------------------
(* Scopes of the resolver and frames of the interpreter.                   *)

\* the levels of an input of DistanceInputs that declare x, the top level too
DeclaringLevels(in) == {l \in 0..Len(in.wraps) : in.decls[l] # "none"}

RECURSIVE Ascending(_)
Ascending(S) ==
    IF S = {} THEN <<>>
    ELSE LET m == CHOOSE k \in S : \A j \in S : k <= j
         IN  <<m>> \o Ascending(S \ {m})

\* the values x has in the frames that hold it, in the order of their creation
RECURSIVE Held(_, _)
Held(name, f) ==
    IF f > Len(envs) THEN <<>>
    ELSE (IF name \in DOMAIN envs[f].values THEN <<envs[f].values[name]>> ELSE <<>>)
         \o Held(name, f + 1)

\* what the declarations of x hold once the program has run: each the number
\* of its level, the innermost one 9 when the reference is an assignment
BoundValues(in) ==
    LET levels == Ascending(DeclaringLevels(in))
    IN  [i \in 1..Len(levels) |->
            IF i = Len(levels) /\ in.ref = "assign" THEN NumV(9)
            ELSE NumV(levels[i])]

\* C28: resolver and interpreter agree on scope depth: in a program that
\* resolve accepts, a read or assignment of x reaches the frame of the
\* innermost declaration of x around it (the read prints that declaration's
\* value, the assignment changes that declaration alone), and the run creates
\* one frame for each scope the resolver pushed, a call's parameters and body
\* sharing one frame.
C28_ScopesMatchFrames ==
    (input.family = "distance" /\ pc = "done"
        /\ DeclaringLevels(input) # {}) =>
        /\ thrown.sig = "none"
        /\ Held("x", 1) = BoundValues(input)
        /\ input.ref = "read" =>
               PrintedValues = <<NumV(Max(DeclaringLevels(input)))>>
        /\ Len(envs) = 1 + Len(input.wraps)

\* the same for the programs whose scopes are all blocks
BlocksMatchFrames ==
    (input.family = "distance" /\ pc = "done"
        /\ DeclaringLevels(input) # {}
        /\ \A l \in 1..Len(input.wraps) : input.wraps[l] = "block") =>
        /\ thrown.sig = "none"
        /\ Held("x", 1) = BoundValues(input)
        /\ input.ref = "read" =>
               PrintedValues = <<NumV(Max(DeclaringLevels(input)))>>
        /\ Len(envs) = 1 + Len(input.wraps)

-----------------------------------------------------------------------------
(* The environment a statement runs against.                               *)

\* the frames that hold a name
Holders(name) == {f \in DOMAIN envs : name \in DOMAIN envs[f].values}

\* the frame that is current where an input of ExitInputs has its construct:
\* the global frame, the frame of the enclosing block, or the frame of the body
\* of g (below the frame of g's call)
FrameBefore(in) ==
    CASE in.outer = "global" -> 1 [] in.outer = "block" -> 2
      [] in.outer = "function" -> 3

\* C29: the environment is restored on every exit from a block or call: the
\* declaration that follows a block left normally, a loop left by break out of
\* nested blocks, or a call left by return out of nested blocks lands in the
\* frame that was current before, and after a runtime error inside nested
\* blocks the next interpret call on the same environment declares into the
\* global frame.
C29_EnvironmentRestored ==
    (input.family = "exits" /\ pc = "done") =>
        /\ (input.exit # "error" /\ op = NoOp) =>
               thrown.sig = "none" /\ Holders("m") = {FrameBefore(input)}
        /\ (input.exit = "error" /\ op = NoOp) =>
               thrown.sig = "RuntimeError" /\ Holders("m") = {}
        /\ op # NoOp => thrown.sig = "none" /\ Holders("n") = {1}

C29_Witness ==
    /\ input.family = "exits" /\ pc = "done" /\ op # NoOp
    /\ input.exit = "error" /\ input.depth = 3 /\ input.outer = "block"
    /\ Len(envs) = 5
    /\ Holders("t") = {5} /\ Holders("n") = {1} /\ Holders("m") = {}

\* the frame current before is found again after a break and after a return
ExitsReached ==
    /\ input.family = "exits" /\ pc = "done" /\ op = NoOp
    /\ input.exit = "return" /\ input.depth = 2 /\ input.outer = "function"
    /\ Holders("m") = {3}

-----------------------------------------------------------------------------
(* Progress of the parser.                                                 *)

\* parseAst is running or has run on an array that ends with EOF
Parsing ==
    /\ pc \notin {"scan", "scan-eof", "scan-thrown", "abandoned", "scanned"}
    /\ tokens # <<>>

\* the stream is at or before the EOF token, the last one of the array
WithinTokens ==
    Parsing => /\ tokens[Len(tokens)].type = "EOF"
               /\ parser.index <= Len(tokens) - 1

\* a pass of the top-level loop consumes a token or ends at EOF
PassAdvances ==
    (pc = "parse" /\ parser' # parser) =>
        \/ parser'.index > parser.index
        \/ tokens[parser'.index + 1].type = "EOF"

\* the loop is over once the stream is at EOF
EndsAtEOF ==
    (Parsing /\ pc # "parse") => tokens[parser.index + 1].type = "EOF"

\* C30: the parser terminates on every token array that ends with EOF: each
\* pass of the top-level loop, also one that ends in a parse error and
\* synchronize, consumes at least one token or leaves the stream at EOF, no
\* step moves the stream past the EOF token, and the loop ends, at EOF.
C30_ParserTerminates ==
    /\ []WithinTokens
    /\ [][PassAdvances]_vars
    /\ []EndsAtEOF
    /\ (pc = "parse") ~> (pc # "parse")

C30_Witness ==
    /\ input.family = "truncated" /\ input.base = 1 /\ input.cut = 9
    /\ pc = "parse-thrown"
    /\ parser.index = 9 /\ tokens[10].type = "EOF"
    /\ Len(parser.errors) = 1

=============================================================================
